---- MODULE Spec2Model ----
(***************************************************************************)
(* Model of the VC AI Incubator workflow engine                            *)
(* (src/vc_agents/pipeline/run.py): the retry/validate call wrapper, the   *)
(* bounded fan-out runner, the Stage-2 build/iterate loop, and the         *)
(* checkpoint/resume logic of run_pipeline.                                *)
(*                                                                         *)
(* One run directory is modelled.  The first invocation of run_pipeline    *)
(* is a fresh run; every later invocation resumes that directory.  An      *)
(* actor call (retry_json_call) is in flight between its Begin and End     *)
(* step; its End step draws the outcome (a validated value, or the         *)
(* terminal RuntimeError).  The retry loop itself is modelled step by      *)
(* step by the Retry* actions (specification SpecRetry), the fan-out       *)
(* runner by the Map* actions (SpecMap) and the portfolio report by the    *)
(* Report* actions (SpecReport), the pre-flight probes by the Preflight*   *)
(* and Probe* actions (SpecPreflight), idea generation by the IdeaGen*     *)
(* actions (SpecIdeaGen), the advisor role assignment by the               *)
(* AdvisorTasks* actions (SpecAdvisorTasks) and extract_json               *)
(* (src/vc_agents/providers/base.py) by ExtractReturn (SpecExtract).       *)
(*                                                                         *)
(* Review scores are multiples of 0.5 and kept in halves (7.5 is 15):      *)
(* sums and means of such scores are exact in floating point, so the       *)
(* integer comparison is the comparison the code makes.  Conviction        *)
(* scores are multiples of 1/16 and kept in sixteenths (7.25 is 116), and  *)
(* a founder has fewer than five decisions: round(mean, 1) is then the     *)
(* nearest tenth of the exact mean, an exact half going to the even tenth. *)
(***************************************************************************)
EXTENDS Integers, Sequences, FiniteSets, TLC

\* ------------------------------------------------------------------------
\* Bounds
\* ------------------------------------------------------------------------
MaxRuns == 2
MaxRounds == 3
MaxConcurrency == 2
MaxAttempts == 3
MaxItems == 3
MaxDecisions == 3
MaxAdvisors == 4
MaxPrefix == 1
MaxSuffix == 2

\* ------------------------------------------------------------------------
\* Program constants
\* ------------------------------------------------------------------------
MIN_ROUNDS_BEFORE_CONVERGENCE == 2
\* 7.5, in halves
ReadinessThreshold == 15

\* ------------------------------------------------------------------------
\* Inputs
\* ------------------------------------------------------------------------
Providers == <<"p1", "p2", "p3">>

\* Role configurations (RoleAssignment.from_config resolves the names).
PipelineRoles ==
  { [founders |-> <<"p1", "p2">>, advisors |-> <<"p2", "p3">>,
     investors |-> <<"p2", "p3">>] }

LoopRoles ==
  { [founders |-> <<"p1">>, advisors |-> <<"p1", "p2", "p3">>,
     investors |-> <<"p2">>],
    [founders |-> <<"p1">>, advisors |-> <<"p2">>, investors |-> <<"p2">>],
    [founders |-> <<"p1">>, advisors |-> <<"p1">>, investors |-> <<"p1">>] }

\* Two founders with one advisor, for a run directory that is resumed more
\* than once.
ResumeRoles ==
  [founders |-> <<"p1", "p2">>, advisors |-> <<"p3">>, investors |-> <<"p3">>]

\* Three founders that only build (no review round): Stage 1, partial
\* Stage-2 resume and Stage 3 with several founders.
WideRoles ==
  { [founders |-> <<"p1", "p2", "p3">>, advisors |-> <<"p1", "p3">>,
     investors |-> <<"p1", "p2">>] }

\* Role configurations as they are handed to run_pipeline: none at all, a
\* usable one, one that names a provider twice in a role (from_config keeps
\* both entries), and ones that name an unknown provider or leave a role
\* empty or out.  The founders of a configuration have different names.
NoRolesConfig == [k \in {} |-> <<>>]

\* No role assignment yet.
NoRoles == [founders |-> <<>>, advisors |-> <<>>, investors |-> <<>>]

SetupRoles ==
  { NoRolesConfig,
    [founders |-> <<"p1">>, advisors |-> <<"p2">>, investors |-> <<"p2">>],
    [founders |-> <<"p1">>, advisors |-> <<"p2", "p2">>, investors |-> <<"p3", "p3">>],
    [founders |-> <<"p1", "p9">>, advisors |-> <<"p2">>, investors |-> <<"p2">>],
    [founders |-> <<"p1">>, advisors |-> <<>>, investors |-> <<"p2">>],
    [founders |-> <<"p1">>, advisors |-> <<"p2">>],
    [founders |-> <<>>, advisors |-> <<"p9">>, investors |-> <<"p2">>] }

\* The provider lists run_preflight is given: real and mock providers.
PreflightProviders ==
  { <<>>,
    << [name |-> "p1", mock |-> FALSE] >>,
    << [name |-> "p1", mock |-> TRUE], [name |-> "p2", mock |-> FALSE] >>,
    << [name |-> "p1", mock |-> FALSE], [name |-> "p2", mock |-> TRUE],
       [name |-> "p3", mock |-> FALSE] >>,
    << [name |-> "p1", mock |-> FALSE], [name |-> "p2", mock |-> FALSE],
       [name |-> "p3", mock |-> FALSE] >> }

\* max_iterations of the runs with several founders.
PipelineIterations == 0..2

\* ideas_per_provider, and how many idea cards an actor may return (it need
\* not be the number asked for).
IdeasPerProvider == {1, 2}
IdeaCounts == {0, 1, 2}

\* Items handed to _map_concurrently taken on its own (they may repeat).
MapItems == {"a", "b"}

\* Inputs of build_portfolio_report taken on its own; the conviction scores
\* are 7.25, 7.1875 and 4.0, in sixteenths.
ReportProviders == { <<"p1", "p2", "p3">>, <<"p3", "p1">> }
ReportPitchers == { {"p1", "p3"} }
ReportDecisionValues ==
  { [decision |-> "invest", conviction_score |-> 116],
    [decision |-> "invest", conviction_score |-> 115],
    [decision |-> "pass", conviction_score |-> 64] }

\* What an advisor review can say: ready_for_pitch and readiness_score (in
\* halves: 8.0 and 7.0).
ReviewValues ==
  { [ready |-> TRUE, score |-> 16],
    [ready |-> TRUE, score |-> 14],
    [ready |-> FALSE, score |-> 16] }

\* What a deliberation verdict can say: overall_readiness and avg_score (in
\* halves: 7.5, 7.0 and 8.0).
VerdictValues ==
  { [ready |-> TRUE, score |-> 15],
    [ready |-> TRUE, score |-> 14],
    [ready |-> FALSE, score |-> 16] }

\* ------------------------------------------------------------------------
\* Sequence helpers
\* ------------------------------------------------------------------------
Range(s) == { s[i] : i \in DOMAIN s }

Max(a, b) == IF a >= b THEN a ELSE b

RECURSIVE SumScores(_)
SumScores(s) == IF s = <<>> THEN 0 ELSE s[1].score + SumScores(Tail(s))

\* s with x appended unless already a member (dict key insertion order).
AddKey(s, x) == IF x \in Range(s) THEN s ELSE Append(s, x)

\* ------------------------------------------------------------------------
\* State
\* ------------------------------------------------------------------------
VARIABLES
  \* run directory (disk)
  cp,              \* checkpoint.json: [keys, done]
  plan_files,      \* founder -> sequence of plan records, index = version + 1
  sel_file,        \* stage1_selections.jsonl
  fp_file,         \* stage2_final_plans.jsonl
  run_dir,         \* does the run directory exist?
  \* arguments of run_pipeline
  roles_config, skip_preflight, use_mock,
  roles, concurrency, max_iterations, deliberation_enabled, ideas_per_provider,
  \* the actors: do their plans carry the founder name they were given?
  echo_names,
  \* the reviewing actors: do their records carry the idea id they were given?
  echo_ids,
  \* the advisors: do their reviews carry their own name as reviewer_provider?
  echo_reviewers,
  \* how many times run_pipeline is invoked on the run directory
  max_runs,
  \* run_pipeline (main thread)
  run_no, pc, checkpoint, selections, final_plans,
  \* what the invocation emitted and raised
  events, surfaced,
  \* the fan-out the main thread is consuming (Stage 1 and Stage 3)
  batch,
  \* run_stage1
  all_ideas, all_feedback,
  \* run_stage3
  s3_idx, all_pitches, all_decisions, report,
  \* run_stage2 (main thread)
  founders_list, s2_final, nxt, cp_read,
  \* _run_founder_stage2 (one task per founder)
  fpc, round_num, plan, rev, verdict, reviews_for_founder, founder_reviews,
  \* actor call log of the current invocation
  calls, s2calls,
  \* retry_json_call
  rpc, context, max_retries, has_schema, attempt, gen_calls, gen_log,
  last_error, rresult, raised,
  \* _map_concurrently
  m_pc, m_items, m_conc, m_st, m_calls, m_val, m_order, m_out,
  \* build_portfolio_report
  r_pc, r_providers, r_pitches, r_decisions, r_plans, r_rows,
  \* run_preflight
  pf_pc, pf_providers, pf_conc, pf_results, pf_calls, pf_raised,
  \* idea_gen_task
  ig_pc,
  \* the advisor tasks of _run_founder_stage2, round by round
  ar_pc, ar_advisors, ar_round, ar_tasks, ar_prev,
  \* extract_json
  ex_pc, ex_text, ex_payload, ex_result

diskVars == <<cp, plan_files, sel_file, fp_file>>
givenVars == <<roles_config, skip_preflight, use_mock, concurrency, max_iterations,
               deliberation_enabled, ideas_per_provider, echo_names, echo_ids,
               echo_reviewers, max_runs>>
\* What the start of run_pipeline sets up and the stages leave alone.
setupVars == <<roles, run_dir>>
argVars == <<givenVars, setupVars>>
mainVars == <<run_no, pc, checkpoint, selections, final_plans>>
outVars == <<events, surfaced>>
stage1Vars == <<all_ideas, all_feedback>>
stage3Vars == <<s3_idx, all_pitches, all_decisions, report>>
stage2Vars == <<founders_list, s2_final, nxt, cp_read>>
founderVars == <<fpc, round_num, plan, rev, verdict, reviews_for_founder,
                 founder_reviews>>
callVars == <<calls, s2calls>>
retryVars == <<rpc, context, max_retries, has_schema, attempt, gen_calls, gen_log,
               last_error, rresult, raised>>
mapVars == <<m_pc, m_items, m_conc, m_st, m_calls, m_val, m_order, m_out>>
reportVars == <<r_pc, r_providers, r_pitches, r_decisions, r_plans, r_rows>>
\* The functions taken on their own.
preflightVars == <<pf_pc, pf_providers, pf_conc, pf_results, pf_calls, pf_raised>>
ideaGenVars == <<ig_pc>>
advisorTaskVars == <<ar_pc, ar_advisors, ar_round, ar_tasks, ar_prev>>
extractVars == <<ex_pc, ex_text, ex_payload, ex_result>>
funcVars == <<retryVars, mapVars, reportVars, preflightVars, ideaGenVars, advisorTaskVars,
             extractVars>>
\* What the Stage-2 steps leave alone.
otherVars == <<outVars, batch, stage1Vars, stage3Vars, funcVars>>
pipelineVars == <<diskVars, argVars, mainVars, outVars, batch, stage1Vars, stage3Vars,
                  stage2Vars, founderVars, callVars>>
vars == <<pipelineVars, funcVars>>

ProviderNames == Range(Providers)

\* ------------------------------------------------------------------------
\* Checkpoint store
\* ------------------------------------------------------------------------
\* A checkpoint object: the set of keys present and the value of
\* stage2_founders_done (the stage flags are only ever written as true).
\* A missing file and an empty object are not told apart by any reader
\* (`_load_checkpoint(run_dir) or {}`, `if checkpoint and ...`).
EmptyCheckpoint == [keys |-> {}, done |-> <<>>]

MergeDictRightOnly(a, b) == b

\* {**a, **b}
MergeDict(a, b) ==
  [keys |-> a.keys \cup b.keys,
   done |-> IF "stage2_founders_done" \in b.keys THEN b.done ELSE a.done]

Flags(ks) == [keys |-> ks, done |-> <<>>]

\* checkpoint.get("stage2_founders_done", [])
FoundersDone(c) == IF "stage2_founders_done" \in c.keys THEN c.done ELSE <<>>

StageCompleteWrongKey(c, key) == "stage3_complete" \in c.keys

\* checkpoint and checkpoint.get(key)
StageComplete(c, key) == key \in c.keys

StageCheckpointOverwrite(existing, flags) == Flags(flags)

\* {**existing_cp, "stage1_complete": True, ...}: the stage-completion writes
\* after Stage 2 and Stage 3.
StageCheckpoint(existing, flags) == MergeDict(existing, Flags(flags))

FounderCheckpointLastOnly(existing, final_keys) ==
  MergeDict(existing, [keys |-> {"stage2_founders_done"},
                       done |-> <<final_keys[Len(final_keys)]>>])

\* The object run_stage2 writes after a founder's result is consumed.
FounderCheckpoint(existing, final_keys) ==
  MergeDict(existing, [keys |-> {"stage2_founders_done"}, done |-> final_keys])

\* ------------------------------------------------------------------------
\* Plans on disk
\* ------------------------------------------------------------------------
\* The founder's k-th idea card.
IdeaId(f, k) == <<f, k>>
Idea(f, k) == [idea_id |-> IdeaId(f, k)]
NoIdea == [idea_id |-> <<"", 0>>]

\* An idea id no idea, plan or pitch of the run carries.
OtherIdeaId == <<"other", 0>>

\* The idea_id in the response of a reviewing actor asked about idea id: the
\* schemas only require a string.
ReturnedIdeaId(id) == IF echo_ids THEN id ELSE OtherIdeaId

\* A plan as the founder's actor returned it: the founder_provider field is
\* whatever the actor wrote (lbl), the idea_id that of the idea it was given.
PlanRecord(lbl, idea, r, v) ==
  [founder_provider |-> lbl, idea_id |-> idea.idea_id, run |-> r, version |-> v]
NoPlan == PlanRecord("", NoIdea, 0, 0)

\* A name that is no provider's.
OtherName == "nobody"

\* The founder_provider values a plan written for founder f may carry.
PlanLabels(f) == IF echo_names THEN {f} ELSE {f, OtherName}
EmptyMap == [f \in {} |-> NoPlan]

WritePlanFileOverLast(files, v, p) ==
  IF files = <<>> THEN <<p>> ELSE [files EXCEPT ![Len(files)] = p]

\* _write_jsonl(run_dir / f"stage2_{name}_plan_v{v}.jsonl", [p])
WritePlanFile(files, v, p) ==
  IF v + 1 <= Len(files) THEN [files EXCEPT ![v + 1] = p] ELSE Append(files, p)

\* _load_founder_plan_from_disk: the record of the highest version present.
LoadFounderPlanFromDisk(f) == plan_files[f][Len(plan_files[f])]

\* {p["founder_provider"]: p for p in records}
KeyByFounder(records) ==
  [f \in { records[i].founder_provider : i \in DOMAIN records } |->
     records[CHOOSE i \in DOMAIN records :
               /\ records[i].founder_provider = f
               /\ \A j \in DOMAIN records :
                    records[j].founder_provider = f => j <= i]]

\* dict.update
UpdateDict(d, e) ==
  [k \in DOMAIN d \cup DOMAIN e |-> IF k \in DOMAIN e THEN e[k] ELSE d[k]]

\* A selection: synthetic (auto-select) or the actor's validated answer.
SelectionRecord(f, r, idea) ==
  [founder_provider |-> f, run |-> r,
   selected_idea_id |-> idea.idea_id, refined_idea |-> idea]
NoSelection == SelectionRecord("", 0, NoIdea)
EmptySelections == [f \in {} |-> NoSelection]

\* ------------------------------------------------------------------------
\* Stage 2, per founder
\* ------------------------------------------------------------------------
Founders == roles.founders
FounderNames == Range(Founders)

\* advisors = [a for a in advisors_pool if a.name != founder.name]
AdvisorsOf(f) == SelectSeq(roles.advisors, LAMBDA a : a # f)

ADVISOR_ROLES == <<"market_strategist", "technical_advisor", "financial_advisor">>

AdvisorRoleFixed(i, r) == ADVISOR_ROLES[((i - 1) % Len(ADVISOR_ROLES)) + 1]

\* ADVISOR_ROLES[(i + round_num - 1) % len(ADVISOR_ROLES)] for the advisor at
\* position i of enumerate(advisors); positions and roles count from 1 here.
AdvisorRole(i, r) == ADVISOR_ROLES[(((i - 1) + r - 1) % Len(ADVISOR_ROLES)) + 1]

\* advisor_tasks of a round: one task per advisor, with its role.
AdvisorTasks(advisors, r) ==
  [i \in DOMAIN advisors |-> [advisor |-> advisors[i], role |-> AdvisorRole(i, r)]]

\* A review task of a round: its state, the role of its advisor and what the
\* review says once returned.
Pending(role) ==
  [st |-> "pending", ready |-> FALSE, score |-> 0, idea_id |-> NoIdea.idea_id,
   role |-> role, reviewer_provider |-> "", prev_feedback |-> <<>>]
InFlight(role) == [Pending(role) EXCEPT !.st = "inflight"]
Failed(role) == [Pending(role) EXCEPT !.st = "failed"]
\* The review an advisor returns for the plan of idea id.
Ok(v, id, role) ==
  [st |-> "ok", ready |-> v.ready, score |-> v.score, idea_id |-> ReturnedIdeaId(id),
   role |-> role, reviewer_provider |-> "", prev_feedback |-> <<>>]

\* The reviewer_provider an advisor's review carries: its own name, or (an
\* actor that does not echo it) the name of the first advisor of the pool.
ReturnedReviewer(f, i) == IF echo_reviewers THEN AdvisorsOf(f)[i] ELSE AdvisorsOf(f)[1]

\* round_reviews as founder_reviews keeps them: what each record says
\* (idea_id, reviewer_provider) and where it came from (the founder whose
\* plan was reviewed and the version of that plan, the advisor that wrote
\* it, the round).
RoundReviews(f) ==
  [i \in DOMAIN rev[f] |->
     [for_founder |-> f, advisor |-> AdvisorsOf(f)[i], round |-> round_num[f],
      plan_version |-> plan[f].version,
      idea_id |-> rev[f][i].idea_id, reviewer_provider |-> rev[f][i].reviewer_provider]]

\* prev_feedback = [r for r in founder_reviews
\*                  if r["idea_id"] == idea_id and r["reviewer_provider"] == advisor.name]
PrevFeedback(f, i) ==
  SelectSeq(founder_reviews[f],
            LAMBDA r : /\ r.idea_id = selections[f].refined_idea.idea_id
                       /\ r.reviewer_provider = AdvisorsOf(f)[i])

NoVerdict == [ready |-> FALSE, score |-> 0]

\* reviews_for_founder, what the iterate prompt shows the founder: the
\* deliberation verdict, or the round's raw reviews.
NoInput == [kind |-> "none", reviews |-> <<>>, deliberation |-> NoVerdict]
ReviewsInput(reviews) ==
  [kind |-> "reviews", reviews |-> reviews, deliberation |-> NoVerdict]
DeliberationInput(v) == [kind |-> "deliberation", reviews |-> <<>>, deliberation |-> v]

FreshRound(f, r) ==
  [i \in 1..Len(AdvisorsOf(f)) |->
     [Pending(AdvisorTasks(AdvisorsOf(f), r)[i].role) EXCEPT
        !.prev_feedback = PrevFeedback(f, i)]]

\* all(r.get("ready_for_pitch", False) for r in round_reviews)
AllReady(reviews) == \A i \in DOMAIN reviews : reviews[i].ready

ScoreReachedWhenEmpty(reviews) ==
  IF Len(reviews) = 0 THEN TRUE
  ELSE SumScores(reviews) >= ReadinessThreshold * Len(reviews)

\* avg_score >= 7.5, where avg_score is the mean or 0.0 for no reviews (the
\* scores are multiples of 0.5, in halves, so sum and mean are exact)
ScoreReached(reviews) ==
  IF Len(reviews) = 0 THEN 0 >= ReadinessThreshold
  ELSE SumScores(reviews) >= ReadinessThreshold * Len(reviews)

ConvergedNoFloor(r, all_ready, score_reached) == all_ready /\ score_reached

\* if round_num >= MIN_ROUNDS_BEFORE_CONVERGENCE and all_ready and avg_score >= 7.5
Converged(r, all_ready, score_reached) ==
  r >= MIN_ROUNDS_BEFORE_CONVERGENCE /\ all_ready /\ score_reached

Running(f) == fpc[f] \in {"build", "review", "delib", "iterate"}

ReviewsInFlight(f) == { i \in DOMAIN rev[f] : rev[f][i].st = "inflight" }

\* The consumer of a fan-out sees an exception when it reaches the first
\* failed task, all earlier results having been returned.
FailureSeen(statuses) ==
  \E i \in DOMAIN statuses :
    /\ statuses[i] = "failed"
    /\ \A j \in 1..(i - 1) : statuses[j] = "ok"

ReviewStatuses(f) == [i \in DOMAIN rev[f] |-> rev[f][i].st]

\* The items a worker of the pool holds once func has been called for item
\* i: the workers take the submitted items in order, so every item up to the
\* last one called is taken, and a worker holds its item until func returns.
\* A worker that has taken an item need not have called func yet.
HeldByWorkers(statuses, i) ==
  LET called == { j \in DOMAIN statuses : statuses[j] # "pending" } \cup {i}
      last == CHOOSE j \in called : \A k \in called : k <= j
  IN { j \in 1..last : statuses[j] \in {"pending", "inflight"} }

\* _map_concurrently: may func be called for item i now?  Sequentially when
\* concurrency <= 1 (func is called for an item once every earlier call has
\* returned; an exception ends the generator).  Otherwise executor.map has
\* submitted every item and each of the `concurrency` workers takes the next
\* queued item and calls func on its own, so the calls of the items taken
\* begin in any order; the workers go on taking queued items after a task
\* has raised, until the consumer meets the exception and the pending
\* futures are cancelled.
MapCanStart(statuses, i, conc) ==
  /\ statuses[i] = "pending"
  /\ IF conc <= 1
     THEN \A j \in 1..(i - 1) : statuses[j] = "ok"
     ELSE Cardinality(HeldByWorkers(statuses, i)) <= conc

\* Number of actor calls in flight.
InFlightCalls ==
  Cardinality({ f \in ProviderNames : fpc[f] \in {"build", "delib", "iterate"} })
  + Cardinality({ <<f, i>> \in ProviderNames \X (1..Len(Providers)) :
                    i \in DOMAIN rev[f] /\ rev[f][i].st = "inflight" })
  + Cardinality({ i \in DOMAIN batch : batch[i].st = "inflight" })
  + (IF pc = "s3_pitch" THEN 1 ELSE 0)

\* ------------------------------------------------------------------------
\* Fan-outs of the main thread (Stage 1 and Stage 3)
\* ------------------------------------------------------------------------
RECURSIVE Flatten(_)
Flatten(ss) == IF Len(ss) = 0 THEN <<>> ELSE ss[1] \o Flatten(Tail(ss))

NoVal == <<>>
Task(item) == [item |-> item, st |-> "pending", err |-> "", val |-> NoVal]

\* The tasks handed to _map_concurrently, none started.
NewBatch(items) == [i \in DOMAIN items |-> Task(items[i])]

\* No fan-out of the main thread has more tasks than this.
MaxTasks == Len(Providers) * Len(Providers) * Cardinality(IdeaCounts)

BatchStatuses == [i \in DOMAIN batch |-> batch[i].st]
BatchPhases == {"s1_ideas", "s1_feedback", "s1_select", "s3_invest"}

\* Every result has been yielded.
BatchDone == \A i \in DOMAIN batch : batch[i].st = "ok"

\* The consumer has met an exception and the pool has shut down.
BatchRaised ==
  /\ FailureSeen(BatchStatuses)
  /\ \A i \in DOMAIN batch : batch[i].st # "inflight"

FirstFailure ==
  CHOOSE i \in DOMAIN batch :
    batch[i].st = "failed" /\ \A j \in 1..(i - 1) : batch[j].st # "failed"

BatchValues == [i \in DOMAIN batch |-> batch[i].val]

NoCalls == [s1 |-> 0, select |-> 0, s3 |-> 0]

\* The call log after one more actor call made in the given phase.
CountCall(phase) ==
  CASE phase = "s1_select" -> [calls EXCEPT !.s1 = @ + 1, !.select = @ + 1]
    [] phase \in {"s3_pitch", "s3_invest"} -> [calls EXCEPT !.s3 = @ + 1]
    [] OTHER -> [calls EXCEPT !.s1 = @ + 1]

\* ------------------------------------------------------------------------
\* run_pipeline: how an exception raised inside a stage leaves the function
\* ------------------------------------------------------------------------
\* What emit() was called with: how many PIPELINE_ERROR and
\* PIPELINE_COMPLETE events, and the pipeline and stage events in order.
NoEvents == [pipeline_error |-> 0, pipeline_complete |-> 0, log |-> <<>>]

\* PipelineEvent(type=..., stage=...)
PipelineEvent(type, stage) == [type |-> type, stage |-> stage]

\* emit(...) for each event of evs, in order
Emit(e, evs) == [e EXCEPT !.log = @ \o evs]

\* except (ProviderError, RuntimeError)
CaughtByPipeline(kind) == kind \in {"ProviderError", "RuntimeError"}

\* A caught exception emits PIPELINE_ERROR and is re-raised as RuntimeError;
\* any other exception propagates as it is.
\* emitted: what the step had emitted before the exception was raised.
SurfaceAfter(kind, emitted) ==
  /\ pc' = "failed"
  /\ IF CaughtByPipeline(kind)
     THEN /\ events' = [Emit(events, emitted \o <<PipelineEvent("pipeline_error", "")>>)
                          EXCEPT !.pipeline_error = @ + 1]
          /\ surfaced' = "RuntimeError"
     ELSE /\ events' = Emit(events, emitted)
          /\ surfaced' = kind

Surface(kind) == SurfaceAfter(kind, <<>>)

\* ------------------------------------------------------------------------
\* run_stage1
\* ------------------------------------------------------------------------
NoIdeas == [f \in {} |-> 0]

\* What idea_gen_task can do: return n validated idea cards, raise the
\* RuntimeError of retry_json_call, raise ValueError (no ideas list, or an
\* idea card that violates its schema), or raise AttributeError (the payload
\* is a JSON array: payload.get).
IdeaOutcomes ==
  { [err |-> "", n |-> n] : n \in IdeaCounts }
    \cup { [err |-> e, n |-> 0] : e \in {"RuntimeError", "ValueError", "AttributeError"} }

\* The advisors that review an idea of founder f: all of them, except f
\* itself when f is a founder.
FeedbackReviewers(f) ==
  SelectSeq(roles.advisors, LAMBDA a : ~(a = f /\ f \in FounderNames))

TasksForIdea(f, k) ==
  [i \in 1..Len(FeedbackReviewers(f)) |->
     [idea |-> Idea(f, k), reviewer |-> FeedbackReviewers(f)[i]]]

\* tasks: for each founder's ideas, for each idea, for each reviewer.
FeedbackTasks(ideas) ==
  Flatten([i \in 1..Len(Founders) |->
             Flatten([k \in 1..ideas[Founders[i]] |-> TasksForIdea(Founders[i], k)])])

\* The feedback record an advisor returns for a task.
FeedbackRecord(task) ==
  [idea_id |-> ReturnedIdeaId(task.idea.idea_id), reviewer_provider |-> task.reviewer]

\* The ideas the founder's actor may name as selected: one of its own.
SelectableIdeas(f) == 1..Max(all_ideas[f], 1)

AutoSelectLast(f, n) == SelectionRecord(f, run_no, Idea(f, n))

\* ideas_per_provider == 1: the synthetic selection of my_ideas[0].
AutoSelect(f, n) == SelectionRecord(f, run_no, Idea(f, 1))

\* ------------------------------------------------------------------------
\* run_stage3 and build_portfolio_report
\* ------------------------------------------------------------------------
\* next((p for p in final_plans.values() if p["founder_provider"] == name), None)
HasPlanFor(f) == \E k \in DOMAIN final_plans : final_plans[k].founder_provider = f
PlanFor(f) ==
  final_plans[CHOOSE k \in DOMAIN final_plans : final_plans[k].founder_provider = f]

\* The first founder at or after position idx for whom a plan is found, or
\* Len(Founders) + 1.
NextPitcher(idx) ==
  IF \E j \in idx..Len(Founders) : HasPlanFor(Founders[j])
  THEN CHOOSE j \in idx..Len(Founders) :
         /\ HasPlanFor(Founders[j])
         /\ \A i \in idx..(j - 1) : ~HasPlanFor(Founders[i])
  ELSE Len(Founders) + 1

\* The pitch the founder's actor returns for a plan.
Pitch(f, p) == [idea_id |-> p.idea_id, founder_provider |-> f]

\* investors = [p for p in investors_pool if p.name != founder.name]
InvestorsOf(f) == SelectSeq(roles.investors, LAMBDA a : a # f)

InvestorTasks(f, p) ==
  [i \in 1..Len(InvestorsOf(f)) |->
     [investor |-> InvestorsOf(f)[i], founder |-> f, idea_id |-> p.idea_id]]

\* What an investor can decide: decision and conviction_score (a number
\* from 1 to 10, here in sixteenths: 8.0 and 4.0).
DecisionValues ==
  { [decision |-> "invest", conviction_score |-> 128],
    [decision |-> "pass", conviction_score |-> 64] }

\* The decision an investor's actor returns for a task.
Decision(task, d) ==
  [idea_id |-> ReturnedIdeaId(task.idea_id), investor_provider |-> task.investor,
   decision |-> d.decision, conviction_score |-> d.conviction_score]

RECURSIVE SumConviction(_)
SumConviction(ds) ==
  IF Len(ds) = 0 THEN 0 ELSE ds[1].conviction_score + SumConviction(Tail(ds))

\* a / b rounded to the nearest integer, halves to the even one.
RoundHalfEven(a, b) ==
  LET q == a \div b
      r == a % b
  IN IF 2 * r < b THEN q
     ELSE IF 2 * r > b THEN q + 1
     ELSE IF q % 2 = 0 THEN q ELSE q + 1

\* round(avg_conviction, 1), in tenths; 0 without decisions.  The scores are
\* sixteenths, so their float sum is exact, and a mean of fewer than five of
\* them lies halfway between two tenths only when it is a multiple of 0.25,
\* which a float holds exactly: round() then rounds it to the even tenth, as
\* it does here (7.25 becomes 7.2), and every other mean to the nearest one.
AvgConviction(ds) ==
  IF Len(ds) = 0 THEN 0
  ELSE RoundHalfEven(10 * SumConviction(ds), 16 * Len(ds))

\* The row of one founder, rank not yet filled.
ReportRow(f, pitches, decisions, plans) ==
  LET idea_id == plans[f].idea_id
      provider_decisions == SelectSeq(decisions, LAMBDA d : d.idea_id = idea_id)
  IN [rank |-> 0,
      founder |-> f,
      idea_id |-> idea_id,
      has_pitch |-> \E i \in DOMAIN pitches : pitches[i].idea_id = idea_id,
      investors_in |-> Len(SelectSeq(provider_decisions,
                                     LAMBDA d : d.decision = "invest")),
      investors_total |-> Len(provider_decisions),
      avg_conviction |-> AvgConviction(provider_decisions)]

SortsBeforeOrTies(a, b) ==
  \/ a.investors_in > b.investors_in
  \/ a.investors_in = b.investors_in /\ a.avg_conviction >= b.avg_conviction

\* key=lambda r: (-r["investors_in"], -r["avg_conviction"]): a strictly first
SortsBefore(a, b) ==
  \/ a.investors_in > b.investors_in
  \/ a.investors_in = b.investors_in /\ a.avg_conviction > b.avg_conviction

\* rows.sort is stable: a row goes after the rows that do not sort after it.
InsertRow(sorted, r) ==
  LET n == Cardinality({ i \in DOMAIN sorted : ~SortsBefore(r, sorted[i]) })
  IN SubSeq(sorted, 1, n) \o <<r>> \o SubSeq(sorted, n + 1, Len(sorted))

RECURSIVE SortRows(_)
SortRows(rows) ==
  IF Len(rows) = 0 THEN <<>>
  ELSE InsertRow(SortRows(SubSeq(rows, 1, Len(rows) - 1)), rows[Len(rows)])

\* build_portfolio_report, for founders that all are keys of plans.
BuildPortfolioReport(founders, pitches, decisions, plans) ==
  LET rows == [i \in DOMAIN founders |-> ReportRow(founders[i], pitches, decisions, plans)]
      sorted == SortRows(rows)
  IN [i \in DOMAIN sorted |-> [sorted[i] EXCEPT !.rank = i]]

\* ------------------------------------------------------------------------
\* retry_json_call
\* ------------------------------------------------------------------------
\* What provider.generate can do, by what becomes of it: text that parses and
\* satisfies the schema, text that parses to an object that violates the
\* schema, text that parses to a JSON array (which violates every schema of
\* the pipeline), text that is not JSON, or a raised ProviderError.
Responses == {"valid", "badschema", "barelist", "badjson", "provider_error"}

Contexts == {"build (p1/idea-1)", "review (p2/idea-1/round1)"}

NoError == [kind |-> "none", attempt |-> 0]
NotRaised == [label |-> "", attempts |-> 0, error |-> NoError]

AttemptErrorNoValidation(resp, schema_given) ==
  CASE resp = "provider_error" -> "ProviderError"
    [] resp = "badjson" -> "invalid_json"
    [] OTHER -> "none"

\* The exception, if any, raised inside the try block for a response:
\* generate raises, parse_json raises, or (with a schema) validate_schema raises.
AttemptError(resp, schema_given) ==
  CASE resp = "provider_error" -> "ProviderError"
    [] resp = "badjson" -> "invalid_json"
    [] resp \in {"badschema", "barelist"} /\ schema_given -> "schema_validation"
    [] OTHER -> "none"

\* The exceptions the loop catches and retries: `except Exception`.
Caught(err) == err # "none"

\* ------------------------------------------------------------------------
\* Initial state: an empty run directory, no invocation started
\* ------------------------------------------------------------------------
RetryIdle ==
  /\ rpc = "idle"
  /\ context = ""
  /\ max_retries = 0
  /\ has_schema = FALSE
  /\ attempt = 0
  /\ gen_calls = 0
  /\ gen_log = <<>>
  /\ last_error = NoError
  /\ rresult = "none"
  /\ raised = NotRaised

MapIdle ==
  /\ m_pc = "idle"
  /\ m_items = <<>>
  /\ m_conc = 0
  /\ m_st = <<>>
  /\ m_calls = <<>>
  /\ m_val = <<>>
  /\ m_order = <<>>
  /\ m_out = <<>>

ReportIdle ==
  /\ r_pc = "idle"
  /\ r_providers = <<>>
  /\ r_pitches = <<>>
  /\ r_decisions = <<>>
  /\ r_plans = EmptyMap
  /\ r_rows = <<>>

PreflightIdle ==
  /\ pf_pc = "idle"
  /\ pf_providers = <<>>
  /\ pf_conc = 0
  /\ pf_results = <<>>
  /\ pf_calls = <<>>
  /\ pf_raised = <<>>

\* extract_json has not been called.
ExtractIdle ==
  /\ ex_pc = "idle"
  /\ ex_text = <<>>
  /\ ex_payload = <<>>
  /\ ex_result = <<>>

InitState ==
  /\ MapIdle
  /\ ReportIdle
  /\ PreflightIdle
  /\ ig_pc = "idle"
  /\ run_dir = FALSE
  /\ ar_pc = "idle"
  /\ ar_advisors = <<>>
  /\ ar_round = 0
  /\ ar_tasks = <<>>
  /\ ar_prev = <<>>
  /\ roles = NoRoles
  /\ cp = EmptyCheckpoint
  /\ plan_files = [f \in ProviderNames |-> <<>>]
  /\ sel_file = <<>>
  /\ fp_file = <<>>
  /\ run_no = 0
  /\ pc = "idle"
  /\ checkpoint = EmptyCheckpoint
  /\ selections = EmptySelections
  /\ final_plans = EmptyMap
  /\ events = NoEvents
  /\ surfaced = "none"
  /\ batch = <<>>
  /\ all_ideas = NoIdeas
  /\ all_feedback = <<>>
  /\ s3_idx = 0
  /\ all_pitches = <<>>
  /\ all_decisions = <<>>
  /\ report = <<>>
  /\ founders_list = <<>>
  /\ s2_final = <<>>
  /\ nxt = 1
  /\ cp_read = EmptyCheckpoint
  /\ fpc = [f \in ProviderNames |-> "notrun"]
  /\ round_num = [f \in ProviderNames |-> 0]
  /\ plan = [f \in ProviderNames |-> NoPlan]
  /\ rev = [f \in ProviderNames |-> <<>>]
  /\ verdict = [f \in ProviderNames |-> NoVerdict]
  /\ reviews_for_founder = [f \in ProviderNames |-> NoInput]
  /\ founder_reviews = [f \in ProviderNames |-> <<>>]
  /\ calls = NoCalls
  /\ s2calls = [f \in ProviderNames |-> 0]

\* Two founders, few rounds, actors that return one idea's worth of
\* selection and echo the names: checkpointing, resume and fan-out, run
\* sequentially (concurrency 1) or on a pool of MaxConcurrency workers.
InitRounds ==
  /\ roles_config \in PipelineRoles
  /\ skip_preflight = TRUE
  /\ use_mock = FALSE
  /\ concurrency \in {1, MaxConcurrency}
  /\ max_iterations \in PipelineIterations
  /\ deliberation_enabled \in BOOLEAN
  /\ concurrency = 1 \/ ~deliberation_enabled
  /\ ideas_per_provider = 1
  /\ echo_names = TRUE
  /\ echo_ids = TRUE
  /\ echo_reviewers = TRUE
  /\ max_runs = MaxRuns

\* Three founders that only build: Stage 1 with any ideas_per_provider,
\* Stage 3, and actors that may write another name into their plans; run
\* sequentially or on a pool of two workers, fewer than the founders, so
\* that the third task waits for a worker.
InitWide ==
  /\ roles_config \in WideRoles
  /\ skip_preflight = TRUE
  /\ use_mock = FALSE
  /\ concurrency \in {1, 2}
  /\ max_iterations = 0
  /\ deliberation_enabled = FALSE
  /\ ideas_per_provider \in IdeasPerProvider
  /\ echo_names \in BOOLEAN
  /\ echo_ids = TRUE
  /\ echo_reviewers = TRUE
  /\ max_runs = MaxRuns
  /\ \/ ideas_per_provider = 1 /\ echo_names
     \/ concurrency = 1 /\ (ideas_per_provider = 1 \/ echo_names)

\* The start of run_pipeline: pre-flight on or off, mock providers or real
\* ones, any role configuration; one build per founder.
InitSetup ==
  /\ roles_config \in SetupRoles
  /\ skip_preflight \in BOOLEAN
  /\ use_mock \in BOOLEAN
  /\ concurrency \in 1..MaxConcurrency
  /\ max_iterations = 0
  /\ deliberation_enabled = FALSE
  /\ ideas_per_provider = 1
  /\ echo_names = TRUE
  /\ echo_ids = TRUE
  /\ echo_reviewers = TRUE
  /\ max_runs = MaxRuns
  /\ roles_config = NoRolesConfig => (concurrency = 1 /\ ~skip_preflight /\ ~use_mock)

Init ==
  /\ InitState
  /\ RetryIdle
  /\ ExtractIdle
  /\ InitRounds \/ InitWide \/ InitSetup

\* The build/iterate loop: one founder and many rounds, and two founders
\* with one advisor on a run directory that is resumed more than once.
InitLoop ==
  /\ InitState
  /\ RetryIdle
  /\ ExtractIdle
  /\ roles_config \in LoopRoles \union {ResumeRoles}
  /\ skip_preflight \in BOOLEAN
  /\ skip_preflight \/ (max_iterations = 0 /\ concurrency = 2)
  /\ use_mock = FALSE
  /\ concurrency \in 0..MaxConcurrency
  /\ max_iterations \in 0..MaxRounds
  /\ deliberation_enabled \in BOOLEAN
  /\ ideas_per_provider \in IdeasPerProvider
  /\ ideas_per_provider = 1 \/ max_iterations = 0
  /\ echo_names = TRUE
  /\ echo_ids \in BOOLEAN
  /\ echo_ids \/ (max_iterations = 1 /\ concurrency = 1 /\ ~deliberation_enabled)
  /\ echo_reviewers \in BOOLEAN
  /\ echo_reviewers \/ (max_iterations = 2 /\ concurrency = 1 /\ ~deliberation_enabled
                          /\ echo_ids /\ skip_preflight /\ Len(roles_config.advisors) = 3)
  /\ max_runs \in {MaxRuns, MaxRuns + 1}
  /\ (max_runs = MaxRuns + 1) <=> (roles_config = ResumeRoles)
  /\ roles_config = ResumeRoles =>
       /\ skip_preflight /\ concurrency = 1 /\ max_iterations = 3
       /\ ~deliberation_enabled /\ ideas_per_provider = 1 /\ echo_ids /\ echo_reviewers

\* ------------------------------------------------------------------------
\* run_preflight
\* ------------------------------------------------------------------------
PreflightFailuresUntilFirst(results) ==
  LET failed == SelectSeq(results, LAMBDA r : ~r.ok)
  IN IF failed = <<>> THEN <<>> ELSE << failed[1].name >>

\* The names of the probes that failed, in provider order.
PreflightFailures(results) ==
  LET failed == SelectSeq(results, LAMBDA r : ~r.ok)
  IN [i \in DOMAIN failed |-> failed[i].name]

\* The probes as tasks of _map_concurrently: probe never raises.
ProbeStatuses ==
  [i \in DOMAIN pf_results |->
     IF pf_results[i].st = "done" THEN "ok" ELSE pf_results[i].st]

\* run_preflight(providers, concurrency) is entered.
PreflightEnter(providers, conc) ==
  /\ pf_pc' = "running"
  /\ pf_providers' = providers
  /\ pf_conc' = conc
  /\ pf_results' = [i \in DOMAIN providers |->
                      [name |-> providers[i].name, st |-> "pending", ok |-> FALSE]]
  /\ pf_calls' = [i \in DOMAIN providers |-> 0]
  /\ pf_raised' = <<>>

PreflightFrame == <<pipelineVars, retryVars, mapVars, reportVars, ideaGenVars,
                    advisorTaskVars, extractVars>>

PreflightCall(providers, conc) ==
  /\ pc = "idle"
  /\ pf_pc \in {"idle", "returned", "raised"}
  /\ PreflightEnter(providers, conc)
  /\ UNCHANGED PreflightFrame

\* probe(provider) starts: a MockProvider is reported ok without a call,
\* any other provider has generate called.
ProbeBegin(i) ==
  /\ pf_pc = "running"
  /\ i \in DOMAIN pf_providers
  /\ MapCanStart(ProbeStatuses, i, pf_conc)
  /\ IF pf_providers[i].mock
     THEN /\ pf_results' = [pf_results EXCEPT ![i].st = "done", ![i].ok = TRUE]
          /\ UNCHANGED pf_calls
     ELSE /\ pf_results' = [pf_results EXCEPT ![i].st = "inflight"]
          /\ pf_calls' = [pf_calls EXCEPT ![i] = @ + 1]
  /\ UNCHANGED <<pf_pc, pf_providers, pf_conc, pf_raised, PreflightFrame>>

\* generate returns, or raises and the exception is caught by probe.
ProbeEnd(i, ok) ==
  /\ pf_pc = "running"
  /\ i \in DOMAIN pf_providers
  /\ pf_results[i].st = "inflight"
  /\ pf_results' = [pf_results EXCEPT ![i].st = "done", ![i].ok = ok]
  /\ UNCHANGED <<pf_pc, pf_providers, pf_conc, pf_calls, pf_raised, PreflightFrame>>

\* All results are in: failures = [r for r in results if not r.ok]; a
\* PreflightError listing them is raised if there are any.
PreflightCollect ==
  /\ pf_pc = "running"
  /\ \A i \in DOMAIN pf_results : pf_results[i].st = "done"
  /\ IF PreflightFailures(pf_results) # <<>>
     THEN /\ pf_pc' = "raised"
          /\ pf_raised' = Append(pf_raised, PreflightFailures(pf_results))
     ELSE /\ pf_pc' = "returned"
          /\ UNCHANGED pf_raised
  /\ UNCHANGED <<pf_providers, pf_conc, pf_results, pf_calls, PreflightFrame>>

NextPreflight ==
  \/ \E providers \in PreflightProviders, conc \in 0..MaxConcurrency :
       PreflightCall(providers, conc)
  \/ \E i \in 1..Len(Providers) : ProbeBegin(i)
  \/ \E i \in 1..Len(Providers), ok \in BOOLEAN : ProbeEnd(i, ok)
  \/ PreflightCollect

\* ------------------------------------------------------------------------
\* RoleAssignment.from_config
\* ------------------------------------------------------------------------
\* roles_config.get(role, [])
RoleNames(cfg, role) == IF role \in DOMAIN cfg THEN cfg[role] ELSE <<>>

ResolveErrorEmptyOnly(providers, cfg, role) ==
  IF RoleNames(cfg, role) = <<>> THEN "no providers" ELSE ""

\* resolve(role): the ValueError it raises, or "".
ResolveError(providers, cfg, role) ==
  IF \E i \in DOMAIN RoleNames(cfg, role) : RoleNames(cfg, role)[i] \notin Range(providers)
  THEN "unknown provider"
  ELSE IF RoleNames(cfg, role) = <<>> THEN "no providers" ELSE ""

\* The ValueError from_config raises (the first role that fails to
\* resolve), or <<>>.  No configuration at all never fails.
FromConfigError(providers, cfg) ==
  IF DOMAIN cfg = {} THEN <<>>
  ELSE IF ResolveError(providers, cfg, "founders") # ""
       THEN <<"founders", ResolveError(providers, cfg, "founders")>>
  ELSE IF ResolveError(providers, cfg, "advisors") # ""
       THEN <<"advisors", ResolveError(providers, cfg, "advisors")>>
  ELSE IF ResolveError(providers, cfg, "investors") # ""
       THEN <<"investors", ResolveError(providers, cfg, "investors")>>
  ELSE <<>>

FromConfig(providers, cfg) ==
  IF DOMAIN cfg = {}
  THEN [founders |-> providers, advisors |-> providers, investors |-> providers]
  ELSE [founders |-> cfg.founders, advisors |-> cfg.advisors,
        investors |-> cfg.investors]

\* ------------------------------------------------------------------------
\* run_pipeline
\* ------------------------------------------------------------------------
\* After the pre-flight: the roles are resolved (a ValueError leaves
\* run_pipeline), then the run directory is created or, on a resume, its
\* checkpoint loaded, and PIPELINE_START is emitted.
Prelude ==
  IF FromConfigError(Providers, roles_config) # <<>>
  THEN /\ pc' = "failed"
       /\ surfaced' = "ValueError"
       /\ roles' = NoRoles
       /\ checkpoint' = EmptyCheckpoint
       /\ events' = NoEvents
       /\ UNCHANGED run_dir
  ELSE /\ roles' = FromConfig(Providers, roles_config)
       /\ run_dir' = TRUE
       /\ checkpoint' = IF run_dir THEN cp ELSE EmptyCheckpoint
       /\ events' = Emit(NoEvents, <<PipelineEvent("pipeline_start", "")>>)
       /\ pc' = "s1"
       /\ surfaced' = "none"

RunsPreflightNever == FALSE

\* if not skip_preflight and not use_mock: run_preflight(providers, concurrency)
RunsPreflight == ~skip_preflight /\ ~use_mock

\* A new invocation on the run directory: fresh the first time (checkpoint
\* = None), a resume afterwards (checkpoint = _load_checkpoint(run_dir)).
\* Nothing of the previous invocation's memory is kept: until the roles are
\* resolved and the checkpoint is loaded there are none.
StartRun ==
  /\ pc \in {"idle", "complete", "failed"}
  /\ run_no < max_runs
  /\ run_no' = run_no + 1
  /\ IF ~RunsPreflight
     THEN /\ Prelude
          /\ UNCHANGED preflightVars
     ELSE /\ pc' = "preflight"
          /\ PreflightEnter([i \in DOMAIN Providers |->
                               [name |-> Providers[i], mock |-> FALSE]], concurrency)
          /\ surfaced' = "none"
          /\ roles' = NoRoles
          /\ checkpoint' = EmptyCheckpoint
          /\ events' = NoEvents
          /\ UNCHANGED run_dir
  /\ selections' = EmptySelections
  /\ final_plans' = EmptyMap
  /\ batch' = <<>>
  /\ all_ideas' = NoIdeas
  /\ all_feedback' = <<>>
  /\ s3_idx' = 0
  /\ all_pitches' = <<>>
  /\ all_decisions' = <<>>
  /\ report' = <<>>
  /\ founders_list' = <<>>
  /\ s2_final' = <<>>
  /\ nxt' = 1
  /\ cp_read' = EmptyCheckpoint
  /\ fpc' = [f \in ProviderNames |-> "notrun"]
  /\ round_num' = [f \in ProviderNames |-> 0]
  /\ plan' = [f \in ProviderNames |-> NoPlan]
  /\ rev' = [f \in ProviderNames |-> <<>>]
  /\ verdict' = [f \in ProviderNames |-> NoVerdict]
  /\ reviews_for_founder' = [f \in ProviderNames |-> NoInput]
  /\ founder_reviews' = [f \in ProviderNames |-> <<>>]
  /\ calls' = NoCalls
  /\ s2calls' = [f \in ProviderNames |-> 0]
  /\ UNCHANGED <<cp, plan_files, sel_file, fp_file, givenVars, retryVars, mapVars,
                 reportVars, ideaGenVars, advisorTaskVars, extractVars>>

\* run_preflight has returned or raised: a PreflightError leaves
\* run_pipeline at once, otherwise the roles are resolved and the run
\* directory is opened.
PreflightDone ==
  /\ pc = "preflight"
  /\ pf_pc \in {"returned", "raised"}
  /\ IF pf_pc = "raised"
     THEN /\ pc' = "failed"
          /\ surfaced' = "PreflightError"
          /\ UNCHANGED <<roles, run_dir, checkpoint, events>>
     ELSE Prelude
  /\ pf_pc' = "idle"
  /\ pf_providers' = <<>>
  /\ pf_conc' = 0
  /\ pf_results' = <<>>
  /\ pf_calls' = <<>>
  /\ pf_raised' = <<>>
  /\ UNCHANGED <<cp, plan_files, sel_file, fp_file, givenVars, run_no, selections,
                 final_plans, batch, stage1Vars, stage3Vars, stage2Vars,
                 founderVars, callVars, retryVars, mapVars, reportVars, ideaGenVars,
                 advisorTaskVars, extractVars>>

\* if checkpoint and checkpoint.get("stage1_complete"): reload selections
Stage1Resume ==
  /\ pc = "s1"
  /\ StageComplete(checkpoint, "stage1_complete")
  /\ selections' = KeyByFounder(sel_file)
  /\ pc' = "s2"
  /\ UNCHANGED <<diskVars, argVars, run_no, checkpoint, final_plans,
                 stage2Vars, founderVars, callVars, otherVars>>

\* What Stage 1 and Stage 3 leave alone.
MainFrame == <<argVars, run_no, checkpoint, stage2Vars, founderVars, s2calls,
               funcVars>>

\* else: run_stage1 emits STAGE_START and hands idea_gen_task for every
\* founder to _map_concurrently
Stage1Begin ==
  /\ pc = "s1"
  /\ ~StageComplete(checkpoint, "stage1_complete")
  /\ pc' = "s1_ideas"
  /\ batch' = NewBatch(Founders)
  /\ events' = Emit(events, <<PipelineEvent("stage_start", "stage1")>>)
  /\ UNCHANGED <<diskVars, MainFrame, selections, final_plans, surfaced, stage1Vars,
                 stage3Vars, calls>>

\* The results of the idea fan-out the loop has taken so far (one key of
\* all_ideas each: the founders have different names).
IdeasYielded == Cardinality(DOMAIN all_ideas)

\* A task of the fan-out being consumed starts: its actor call is made.
\* (With concurrency <= 1 the generator calls func for the next item only
\* when the loop asks for the next result, its body for the last one done.)
TaskBegin(i) ==
  /\ pc \in BatchPhases
  /\ i \in DOMAIN batch
  /\ MapCanStart(BatchStatuses, i, concurrency)
  /\ (pc = "s1_ideas" /\ concurrency <= 1) => IdeasYielded = i - 1
  /\ batch' = [batch EXCEPT ![i].st = "inflight"]
  /\ calls' = CountCall(pc)
  /\ UNCHANGED <<diskVars, MainFrame, pc, selections, final_plans, outVars,
                 stage1Vars, stage3Vars>>

TaskEnd(i, err, val) ==
  /\ i \in DOMAIN batch
  /\ batch[i].st = "inflight"
  /\ batch' = [batch EXCEPT ![i] = [item |-> batch[i].item,
                                    st |-> IF err = "" THEN "ok" ELSE "failed",
                                    err |-> err, val |-> val]]
  /\ UNCHANGED <<diskVars, MainFrame, pc, selections, final_plans, outVars,
                 stage1Vars, stage3Vars, calls>>

\* idea_gen_task returns (provider.name, idea_items) or raises.
IdeaGenEnd(i, out) ==
  /\ pc = "s1_ideas"
  /\ TaskEnd(i, out.err, out.n)

\* feedback_task returns the validated feedback or raises.
FeedbackEnd(i, ok) ==
  /\ pc = "s1_feedback"
  /\ i \in DOMAIN batch
  /\ IF ok THEN TaskEnd(i, "", FeedbackRecord(batch[i].item))
     ELSE TaskEnd(i, "RuntimeError", NoVal)

\* selection_task returns the validated selection (the actor names the idea
\* it selected and returns its refined copy) or raises.
SelectionEnd(i, ok, k) ==
  /\ pc = "s1_select"
  /\ i \in DOMAIN batch
  /\ k \in SelectableIdeas(batch[i].item)
  /\ IF ok THEN TaskEnd(i, "", SelectionRecord(batch[i].item, run_no, Idea(batch[i].item, k)))
     ELSE TaskEnd(i, "RuntimeError", NoVal)

\* The consumer of the fan-out meets the exception of a failed task: it leaves
\* the stage and reaches run_pipeline's handler.
BatchFail ==
  /\ pc \in BatchPhases
  /\ BatchRaised
  /\ pc = "s1_ideas" => IdeasYielded = FirstFailure - 1
  /\ Surface(batch[FirstFailure].err)
  /\ UNCHANGED <<diskVars, MainFrame, selections, final_plans, batch, stage1Vars,
                 stage3Vars, calls>>

\* all_ideas[name] = items
SetIdeas(ideas, name, items) ==
  [f \in DOMAIN ideas \cup {name} |-> IF f = name THEN items ELSE ideas[f]]

\* for name, items in _map_concurrently(idea_gen_task, ...): the next result,
\* in founder order, is there and the loop body stores it.
IdeaYield ==
  /\ pc = "s1_ideas"
  /\ IdeasYielded < Len(batch)
  /\ batch[IdeasYielded + 1].st = "ok"
  /\ all_ideas' = SetIdeas(all_ideas, batch[IdeasYielded + 1].item,
                           batch[IdeasYielded + 1].val)
  /\ UNCHANGED <<diskVars, MainFrame, pc, selections, final_plans, outVars, batch,
                 all_feedback, stage3Vars, calls>>

\* Step 1a is over: every result is stored and the feedback tasks are built
\* from all_ideas.
IdeasCollected ==
  /\ pc = "s1_ideas"
  /\ IdeasYielded = Len(batch)
  /\ batch' = NewBatch(FeedbackTasks(all_ideas))
  /\ pc' = "s1_feedback"
  /\ UNCHANGED <<diskVars, MainFrame, selections, final_plans, outVars, stage1Vars,
                 stage3Vars, calls>>

\* run_stage1 returns: stage1_selections.jsonl is written, STAGE_COMPLETE
\* is emitted and run_pipeline saves {"stage1_complete": True}.
Stage1Return(sel) ==
  /\ selections' = sel
  /\ sel_file' = [i \in DOMAIN Founders |-> sel[Founders[i]]]
  /\ cp' = Flags({"stage1_complete"})
  /\ pc' = "s2"
  /\ batch' = <<>>
  /\ all_ideas' = NoIdeas
  /\ all_feedback' = <<>>
  /\ events' = Emit(events, <<PipelineEvent("stage_complete", "stage1")>>)
  /\ UNCHANGED surfaced

\* Step 1b is over.  With ideas_per_provider == 1 every founder's selection
\* is synthesized (IndexError for a founder without ideas) and the stage
\* returns; otherwise the selection tasks are handed to _map_concurrently.
FeedbackCollected ==
  /\ pc = "s1_feedback"
  /\ BatchDone
  /\ IF ideas_per_provider = 1
     THEN IF \E f \in FounderNames : all_ideas[f] = 0
          THEN /\ Surface("IndexError")
               /\ all_feedback' = BatchValues
               /\ UNCHANGED <<selections, sel_file, cp, batch, all_ideas>>
          ELSE Stage1Return([f \in FounderNames |-> AutoSelect(f, all_ideas[f])])
     ELSE /\ all_feedback' = BatchValues
          /\ batch' = NewBatch(Founders)
          /\ pc' = "s1_select"
          /\ UNCHANGED <<selections, sel_file, cp, outVars, all_ideas>>
  /\ UNCHANGED <<plan_files, fp_file, MainFrame, final_plans, stage3Vars, calls>>

\* Step 1c is over (ideas_per_provider != 1).
SelectionsCollected ==
  /\ pc = "s1_select"
  /\ BatchDone
  /\ Stage1Return([f \in FounderNames |->
                     batch[CHOOSE i \in DOMAIN batch : batch[i].item = f].val])
  /\ UNCHANGED <<plan_files, fp_file, MainFrame, final_plans, stage3Vars, calls>>

\* if checkpoint and checkpoint.get("stage2_complete"): reload final plans
Stage2Resume ==
  /\ pc = "s2"
  /\ StageComplete(checkpoint, "stage2_complete")
  /\ final_plans' = KeyByFounder(fp_file)
  /\ pc' = "s3"
  /\ UNCHANGED <<diskVars, argVars, run_no, checkpoint, selections,
                 stage2Vars, founderVars, callVars, otherVars>>

RemainingAll(done) == Founders

\* remaining = [f for f in all_founders if f.name not in founders_done]
Remaining(done) == SelectSeq(Founders, LAMBDA f : f \notin Range(done))

\* else: load the plans of the founders already done and run Stage 2 for
\* the remaining ones (run_stage2 with founders_override, which emits
\* STAGE_START), if any; with none remaining run_pipeline emits STAGE_START
\* and STAGE_COMPLETE itself.
Stage2Enter ==
  /\ pc = "s2"
  /\ ~StageComplete(checkpoint, "stage2_complete")
  /\ LET done == FoundersDone(checkpoint)
         loaded == { f \in FounderNames : f \in Range(done) }
         remaining == Remaining(done)
     IN IF \E f \in loaded : plan_files[f] = <<>>
        THEN /\ Surface("FileNotFoundError")
             /\ UNCHANGED <<final_plans, founders_list, fpc>>
        ELSE /\ final_plans' = [f \in loaded |-> LoadFounderPlanFromDisk(f)]
             /\ founders_list' = remaining
             /\ fpc' = [f \in ProviderNames |->
                          IF f \in Range(remaining) THEN "queued" ELSE "notrun"]
             /\ pc' = IF remaining # <<>> THEN "s2_run" ELSE "s2_flag"
             /\ events' = Emit(events,
                  IF remaining # <<>>
                  THEN <<PipelineEvent("stage_start", "stage2")>>
                  ELSE <<PipelineEvent("stage_start", "stage2"),
                         PipelineEvent("stage_complete", "stage2")>>)
             /\ UNCHANGED surfaced
  /\ UNCHANGED <<diskVars, argVars, run_no, checkpoint, selections,
                 s2_final, nxt, cp_read, round_num, plan, rev, verdict,
                 reviews_for_founder, founder_reviews,
                 callVars, batch, stage1Vars, stage3Vars, funcVars>>

\* ------------------------------------------------------------------------
\* run_stage2: the loop over _map_concurrently(_run_founder_stage2, ...)
\* ------------------------------------------------------------------------
\* The founder tasks as _map_concurrently sees them.
FounderStatuses ==
  [j \in DOMAIN founders_list |->
     CASE fpc[founders_list[j]] = "queued" -> "pending"
       [] Running(founders_list[j]) -> "inflight"
       [] OTHER -> fpc[founders_list[j]]]

\* May the task of the i-th founder start?  With concurrency <= 1 the
\* generator calls it when the loop body asks for the next result; otherwise
\* the pool workers take the tasks in submission order and each starts the
\* one it has taken on its own.
FounderCanStart(i) ==
  /\ fpc[founders_list[i]] = "queued"
  /\ IF concurrency <= 1
     THEN pc = "s2_run" /\ nxt = i
     ELSE /\ pc \in {"s2_run", "s2_save"}
          /\ MapCanStart(FounderStatuses, i, concurrency)

ReturnedPlanFirst(f) == plan_files[f][1]

\* return founder.name, plan, founder_reviews
ReturnedPlan(f) == plan[f]

\* The next result is available: final_plans[f_name] = f_plan, and the
\* checkpoint is read for the merge.
ConsumeFounder ==
  /\ pc = "s2_run"
  /\ nxt <= Len(founders_list)
  /\ fpc[founders_list[nxt]] = "done"
  /\ s2_final' = AddKey(s2_final, founders_list[nxt])
  /\ cp_read' = cp
  /\ pc' = "s2_save"
  /\ UNCHANGED <<diskVars, argVars, run_no, checkpoint, selections, final_plans,
                 founders_list, nxt, founderVars, callVars, otherVars>>

\* _save_checkpoint(run_dir, {**loaded, "stage2_founders_done": keys})
SaveFounderCheckpoint ==
  /\ pc = "s2_save"
  /\ cp' = FounderCheckpoint(cp_read, s2_final)
  /\ nxt' = nxt + 1
  /\ pc' = "s2_run"
  /\ UNCHANGED <<plan_files, sel_file, fp_file, argVars, run_no, checkpoint,
                 selections, final_plans, founders_list, s2_final, cp_read,
                 founderVars, callVars, otherVars>>

\* The next result is an exception: it leaves the loop; the pool cancels the
\* tasks not yet started and waits for the running ones.
NoticeFailure ==
  /\ pc = "s2_run"
  /\ nxt <= Len(founders_list)
  /\ fpc[founders_list[nxt]] = "failed"
  /\ fpc' = [f \in ProviderNames |-> IF fpc[f] = "queued" THEN "cancelled" ELSE fpc[f]]
  /\ pc' = "s2_abort"
  /\ UNCHANGED <<diskVars, argVars, run_no, checkpoint, selections, final_plans,
                 stage2Vars, round_num, plan, rev, verdict, reviews_for_founder,
                 founder_reviews,
                 callVars, otherVars>>

\* The pool has shut down; the RuntimeError of the failed actor call reaches
\* run_pipeline's handler.
AbortStage2 ==
  /\ pc = "s2_abort"
  /\ \A f \in ProviderNames : ~Running(f)
  /\ Surface("RuntimeError")
  /\ UNCHANGED <<diskVars, argVars, run_no, checkpoint, selections, final_plans,
                 stage2Vars, founderVars, callVars, batch, stage1Vars, stage3Vars,
                 funcVars>>

\* All results consumed: stage2_final_plans.jsonl is written from the local
\* final_plans, STAGE_COMPLETE is emitted, and run_pipeline does
\* final_plans.update(partial).
FinishStage2 ==
  /\ pc = "s2_run"
  /\ nxt > Len(founders_list)
  /\ fp_file' = [i \in DOMAIN s2_final |-> ReturnedPlan(s2_final[i])]
  /\ final_plans' = UpdateDict(final_plans, [f \in Range(s2_final) |-> ReturnedPlan(f)])
  /\ events' = Emit(events, <<PipelineEvent("stage_complete", "stage2")>>)
  /\ pc' = "s2_flag"
  /\ UNCHANGED <<cp, plan_files, sel_file, argVars, run_no, checkpoint, selections,
                 stage2Vars, founderVars, callVars, surfaced, batch, stage1Vars,
                 stage3Vars, funcVars>>

\* _save_checkpoint(run_dir, {**existing_cp, stage1_complete, stage2_complete})
MarkStage2Complete ==
  /\ pc = "s2_flag"
  /\ cp' = StageCheckpoint(cp, {"stage1_complete", "stage2_complete"})
  /\ pc' = "s3"
  /\ rev' = [f \in ProviderNames |-> <<>>]
  /\ verdict' = [f \in ProviderNames |-> NoVerdict]
  /\ reviews_for_founder' = [f \in ProviderNames |-> NoInput]
  /\ founder_reviews' = [f \in ProviderNames |-> <<>>]
  /\ UNCHANGED <<plan_files, sel_file, fp_file, argVars, run_no, checkpoint,
                 selections, final_plans, stage2Vars, fpc, round_num, plan, callVars,
                 otherVars>>

\* ------------------------------------------------------------------------
\* run_stage3
\* ------------------------------------------------------------------------
\* The loop over founders_list continues at position idx, `decisions` being
\* all_decisions so far.  A founder for whom no plan is found is skipped; the
\* next one's pitch call is made.  After the last founder the report is built
\* (KeyError for a founder that is no key of final_plans), run_pipeline merges
\* the three flags into the checkpoint and emits PIPELINE_COMPLETE.  emitted
\* is what the step emitted before it came to the loop.
Stage3Loop(idx, decisions, emitted) ==
  LET j == NextPitcher(idx)
  IN /\ s3_idx' = j
     /\ IF j <= Len(Founders)
        THEN /\ pc' = "s3_pitch"
             /\ calls' = CountCall("s3_pitch")
             /\ events' = Emit(events, emitted)
             /\ UNCHANGED <<report, cp, surfaced>>
        ELSE /\ UNCHANGED calls
             /\ IF \E f \in FounderNames : f \notin DOMAIN final_plans
                THEN /\ SurfaceAfter("KeyError", emitted)
                     /\ UNCHANGED <<report, cp>>
                ELSE /\ report' = BuildPortfolioReport(Founders, all_pitches,
                                                       decisions, final_plans)
                     /\ cp' = StageCheckpoint(cp, {"stage1_complete", "stage2_complete",
                                                   "stage3_complete"})
                     /\ pc' = "complete"
                     /\ events' = [Emit(events, emitted \o
                                         <<PipelineEvent("pipeline_complete", "")>>)
                                      EXCEPT !.pipeline_complete = @ + 1]
                     /\ UNCHANGED surfaced

\* run_stage3 is entered (whatever the checkpoint says about Stage 3) and
\* emits STAGE_START.
Stage3Begin ==
  /\ pc = "s3"
  /\ all_pitches' = <<>>
  /\ all_decisions' = <<>>
  /\ Stage3Loop(1, <<>>, <<PipelineEvent("stage_start", "stage3")>>)
  /\ UNCHANGED <<plan_files, sel_file, fp_file, MainFrame, selections, final_plans,
                 batch, stage1Vars>>

\* The pitch call returns the validated pitch and the investor tasks are
\* handed to _map_concurrently; or it fails terminally.
PitchEnd(ok) ==
  /\ pc = "s3_pitch"
  /\ LET founder == Founders[s3_idx]
         plan_found == PlanFor(founder)
     IN IF ok
        THEN /\ all_pitches' = Append(all_pitches, Pitch(founder, plan_found))
             /\ batch' = NewBatch(InvestorTasks(founder, plan_found))
             /\ pc' = "s3_invest"
             /\ UNCHANGED outVars
        ELSE /\ Surface("RuntimeError")
             /\ UNCHANGED <<all_pitches, batch>>
  /\ UNCHANGED <<diskVars, MainFrame, selections, final_plans, stage1Vars, s3_idx,
                 all_decisions, report, calls>>

\* investor_eval_task returns the validated decision or raises.
InvestEnd(i, ok, d) ==
  /\ pc = "s3_invest"
  /\ i \in DOMAIN batch
  /\ IF ok THEN TaskEnd(i, "", Decision(batch[i].item, d))
     ELSE TaskEnd(i, "RuntimeError", NoVal)

\* all_decisions.extend(decisions), and the loop goes on.
DecisionsCollected ==
  /\ pc = "s3_invest"
  /\ BatchDone
  /\ all_decisions' = all_decisions \o BatchValues
  /\ Stage3Loop(s3_idx + 1, all_decisions \o BatchValues, <<>>)
  /\ UNCHANGED <<plan_files, sel_file, fp_file, MainFrame, selections, final_plans,
                 batch, stage1Vars, all_pitches>>

\* ------------------------------------------------------------------------
\* _run_founder_stage2
\* ------------------------------------------------------------------------
FounderFrame == <<diskVars, argVars, mainVars, stage2Vars, otherVars>>

\* The plan the founder's actor returns in this invocation for the idea of
\* its selection (selection["refined_idea"]).
NewPlan(f, lbl, v) == PlanRecord(lbl, selections[f].refined_idea, run_no, v)

\* The task starts: the initial build call is made.
FounderStart(f) ==
  /\ \E i \in DOMAIN founders_list : founders_list[i] = f /\ FounderCanStart(i)
  /\ fpc' = [fpc EXCEPT ![f] = "build"]
  /\ s2calls' = [s2calls EXCEPT ![f] = @ + 1]
  /\ UNCHANGED <<diskVars, argVars, mainVars, stage2Vars, round_num, plan, rev,
                 verdict, reviews_for_founder, founder_reviews, calls, otherVars>>

\* The build call returns plan v0 (written to disk) and round 1 begins, or
\* there are no rounds; or the call fails terminally.
BuildEnd(f, ok, lbl) ==
  /\ fpc[f] = "build"
  /\ IF ok
     THEN /\ plan' = [plan EXCEPT ![f] = NewPlan(f, lbl, 0)]
          /\ plan_files' = [plan_files EXCEPT ![f] = WritePlanFile(@, 0, NewPlan(f, lbl, 0))]
          /\ IF max_iterations >= 1
             THEN /\ round_num' = [round_num EXCEPT ![f] = 1]
                  /\ rev' = [rev EXCEPT ![f] = FreshRound(f, 1)]
                  /\ fpc' = [fpc EXCEPT ![f] = "review"]
             ELSE /\ fpc' = [fpc EXCEPT ![f] = "done"]
                  /\ UNCHANGED <<round_num, rev>>
     ELSE /\ fpc' = [fpc EXCEPT ![f] = "failed"]
          /\ UNCHANGED <<plan, plan_files, round_num, rev>>
  /\ UNCHANGED <<cp, sel_file, fp_file, argVars, mainVars, stage2Vars, verdict,
                 reviews_for_founder, founder_reviews, callVars, otherVars>>

\* A review call of the round's fan-out starts.
ReviewBegin(f, i) ==
  /\ fpc[f] = "review"
  /\ i \in DOMAIN rev[f]
  /\ MapCanStart(ReviewStatuses(f), i, concurrency)
  /\ rev' = [rev EXCEPT ![f][i] =
               [InFlight(rev[f][i].role) EXCEPT !.prev_feedback = rev[f][i].prev_feedback]]
  /\ s2calls' = [s2calls EXCEPT ![f] = @ + 1]
  /\ UNCHANGED <<FounderFrame, fpc, round_num, plan, verdict, reviews_for_founder,
                 founder_reviews,
                 calls>>

\* A review call returns a validated review, or fails terminally.
ReviewEnd(f, i, ok, v) ==
  /\ fpc[f] = "review"
  /\ i \in DOMAIN rev[f]
  /\ rev[f][i].st = "inflight"
  /\ rev' = [rev EXCEPT ![f][i] =
               IF ok
               THEN [Ok(v, plan[f].idea_id, rev[f][i].role) EXCEPT
                       !.reviewer_provider = ReturnedReviewer(f, i),
                       !.prev_feedback = rev[f][i].prev_feedback]
               ELSE [Failed(rev[f][i].role) EXCEPT
                       !.prev_feedback = rev[f][i].prev_feedback]]
  /\ UNCHANGED <<FounderFrame, fpc, round_num, plan, verdict, reviews_for_founder,
                 founder_reviews,
                 callVars>>

\* list(_map_concurrently(review_task, ...)) raises once the pool has shut down.
ReviewsFail(f) ==
  /\ fpc[f] = "review"
  /\ FailureSeen(ReviewStatuses(f))
  /\ ReviewsInFlight(f) = {}
  /\ fpc' = [fpc EXCEPT ![f] = "failed"]
  /\ UNCHANGED <<FounderFrame, round_num, plan, rev, verdict, reviews_for_founder,
                 founder_reviews,
                 callVars>>

RoundReviewsInAny(f) ==
  /\ fpc[f] = "review"
  /\ \E i \in DOMAIN rev[f] : rev[f][i].st = "ok"
  /\ \A i \in DOMAIN rev[f] : rev[f][i].st \in {"ok", "pending"}

\* list(_map_concurrently(review_task, ...)) has returned every review.
RoundReviewsIn(f) ==
  /\ fpc[f] = "review"
  /\ \A i \in DOMAIN rev[f] : rev[f][i].st = "ok"

DeliberatesNever(f) == FALSE

\* if deliberation_enabled and advisors
Deliberates(f) == deliberation_enabled /\ Len(AdvisorsOf(f)) > 0

AfterRoundNoCap(f, all_ready, score_reached, for_founder) ==
  IF Converged(round_num[f], all_ready, score_reached)
  THEN /\ fpc' = [fpc EXCEPT ![f] = "done"]
       /\ UNCHANGED <<s2calls, reviews_for_founder>>
  ELSE /\ fpc' = [fpc EXCEPT ![f] = "iterate"]
       /\ s2calls' = [s2calls EXCEPT ![f] = @ + 1]
       /\ reviews_for_founder' = [reviews_for_founder EXCEPT ![f] = for_founder]

\* The convergence test and what follows it: break on convergence, break at
\* max_iterations, otherwise the iterate call is made with for_founder as
\* the reviews of its prompt.
AfterRound(f, all_ready, score_reached, for_founder) ==
  IF Converged(round_num[f], all_ready, score_reached)
  THEN /\ fpc' = [fpc EXCEPT ![f] = "done"]
       /\ UNCHANGED <<s2calls, reviews_for_founder>>
  ELSE IF round_num[f] = max_iterations
  THEN /\ fpc' = [fpc EXCEPT ![f] = "done"]
       /\ UNCHANGED <<s2calls, reviews_for_founder>>
  ELSE /\ fpc' = [fpc EXCEPT ![f] = "iterate"]
       /\ s2calls' = [s2calls EXCEPT ![f] = @ + 1]
       /\ reviews_for_founder' = [reviews_for_founder EXCEPT ![f] = for_founder]

\* Without deliberation: readiness and score come from the round's reviews.
RoundDecide(f) ==
  /\ RoundReviewsIn(f)
  /\ ~Deliberates(f)
  /\ AfterRound(f, AllReady(rev[f]), ScoreReached(rev[f]), ReviewsInput(rev[f]))
  /\ founder_reviews' = [founder_reviews EXCEPT ![f] = @ \o RoundReviews(f)]
  /\ UNCHANGED <<FounderFrame, round_num, plan, rev, verdict, calls>>

\* With deliberation: the lead advisor's synthesis call is made.
DelibBegin(f) ==
  /\ RoundReviewsIn(f)
  /\ Deliberates(f)
  /\ fpc' = [fpc EXCEPT ![f] = "delib"]
  /\ s2calls' = [s2calls EXCEPT ![f] = @ + 1]
  /\ founder_reviews' = [founder_reviews EXCEPT ![f] = @ \o RoundReviews(f)]
  /\ UNCHANGED <<FounderFrame, round_num, plan, rev, verdict, reviews_for_founder,
                 calls>>

\* The verdict returns and supplies readiness and score; or the call fails.
DelibEnd(f, ok, v) ==
  /\ fpc[f] = "delib"
  /\ IF ok
     THEN /\ verdict' = [verdict EXCEPT ![f] = v]
          /\ AfterRound(f, v.ready, v.score >= ReadinessThreshold, DeliberationInput(v))
     ELSE /\ fpc' = [fpc EXCEPT ![f] = "failed"]
          /\ UNCHANGED <<verdict, s2calls, reviews_for_founder>>
  /\ UNCHANGED <<FounderFrame, round_num, plan, rev, founder_reviews, calls>>

\* The iterate call returns plan v<round> (written to disk) and the next
\* round begins; or the call fails terminally.
IterateEnd(f, ok, lbl) ==
  /\ fpc[f] = "iterate"
  /\ IF ok
     THEN /\ plan' = [plan EXCEPT ![f] = NewPlan(f, lbl, round_num[f])]
          /\ plan_files' = [plan_files EXCEPT
               ![f] = WritePlanFile(@, round_num[f], NewPlan(f, lbl, round_num[f]))]
          /\ round_num' = [round_num EXCEPT ![f] = @ + 1]
          /\ rev' = [rev EXCEPT ![f] = FreshRound(f, round_num[f] + 1)]
          /\ fpc' = [fpc EXCEPT ![f] = "review"]
     ELSE /\ fpc' = [fpc EXCEPT ![f] = "failed"]
          /\ UNCHANGED <<plan, plan_files, round_num, rev>>
  /\ reviews_for_founder' = [reviews_for_founder EXCEPT ![f] = NoInput]
  /\ UNCHANGED <<cp, sel_file, fp_file, argVars, mainVars, stage2Vars, verdict,
                 founder_reviews,
                 callVars, otherVars>>

\* ------------------------------------------------------------------------
\* Specification of the pipeline
\* ------------------------------------------------------------------------
Next ==
  \/ PreflightDone
  \/ \E i \in 1..Len(Providers) : ProbeBegin(i)
  \/ \E i \in 1..Len(Providers), ok \in BOOLEAN : ProbeEnd(i, ok)
  \/ PreflightCollect
  \/ StartRun
  \/ Stage1Resume
  \/ Stage1Begin
  \/ \E i \in 1..MaxTasks : TaskBegin(i)
  \/ \E i \in 1..MaxTasks, out \in IdeaOutcomes : IdeaGenEnd(i, out)
  \/ \E i \in 1..MaxTasks, ok \in BOOLEAN : FeedbackEnd(i, ok)
  \/ \E i \in 1..MaxTasks, ok \in BOOLEAN, k \in IdeaCounts : SelectionEnd(i, ok, k)
  \/ BatchFail
  \/ IdeaYield
  \/ IdeasCollected
  \/ FeedbackCollected
  \/ SelectionsCollected
  \/ Stage2Resume
  \/ Stage2Enter
  \/ ConsumeFounder
  \/ SaveFounderCheckpoint
  \/ NoticeFailure
  \/ AbortStage2
  \/ FinishStage2
  \/ MarkStage2Complete
  \/ Stage3Begin
  \/ \E ok \in BOOLEAN : PitchEnd(ok)
  \/ \E i \in 1..MaxTasks, ok \in BOOLEAN, d \in DecisionValues : InvestEnd(i, ok, d)
  \/ DecisionsCollected
  \/ \E f \in ProviderNames : FounderStart(f)
  \/ \E f \in ProviderNames, ok \in BOOLEAN :
       \E lbl \in PlanLabels(f) : BuildEnd(f, ok, lbl)
  \/ \E f \in ProviderNames, i \in 1..Len(Providers) : ReviewBegin(f, i)
  \/ \E f \in ProviderNames, i \in 1..Len(Providers), ok \in BOOLEAN, v \in ReviewValues :
       ReviewEnd(f, i, ok, v)
  \/ \E f \in ProviderNames : ReviewsFail(f)
  \/ \E f \in ProviderNames : RoundDecide(f)
  \/ \E f \in ProviderNames : DelibBegin(f)
  \/ \E f \in ProviderNames, ok \in BOOLEAN, v \in VerdictValues : DelibEnd(f, ok, v)
  \/ \E f \in ProviderNames, ok \in BOOLEAN :
       \E lbl \in PlanLabels(f) : IterateEnd(f, ok, lbl)

Spec == Init /\ [][Next]_vars

SpecLoop == InitLoop /\ [][Next]_vars

\* ------------------------------------------------------------------------
\* retry_json_call, step by step
\* ------------------------------------------------------------------------
\* The call is made: with max_retries >= 1 the first attempt invokes
\* generate; with max_retries < 1 the loop body never runs and the
\* RuntimeError is raised at once.
RetryFrame == <<pipelineVars, mapVars, reportVars, preflightVars, advisorTaskVars, extractVars>>

RetryEnter(c, m, hs) ==
  /\ context' = c
  /\ max_retries' = m
  /\ has_schema' = hs
  /\ gen_log' = <<>>
  /\ last_error' = NoError
  /\ rresult' = "none"
  /\ IF m >= 1
     THEN /\ attempt' = 1
          /\ gen_calls' = 1
          /\ rpc' = "generating"
          /\ raised' = NotRaised
     ELSE /\ attempt' = 0
          /\ gen_calls' = 0
          /\ rpc' = "raised"
          /\ raised' = [label |-> c, attempts |-> m, error |-> NoError]

RetryCall(c, m, hs) ==
  /\ rpc \in {"idle", "returned", "raised"}
  /\ ig_pc = "idle"
  /\ RetryEnter(c, m, hs)
  /\ UNCHANGED <<RetryFrame, ideaGenVars>>

\* generate returns (or raises); the response is parsed and validated.  On
\* success the data is returned.  On a caught exception last_error is set
\* and either the next attempt invokes generate or, at attempt ==
\* max_retries, the loop is left and the RuntimeError raised.
RetryGenerateEnd(resp) ==
  /\ rpc = "generating"
  /\ gen_log' = Append(gen_log, resp)
  /\ LET err == AttemptError(resp, has_schema)
     IN IF ~Caught(err)
        THEN /\ rpc' = "returned"
             /\ rresult' = resp
             /\ UNCHANGED <<attempt, gen_calls, last_error, raised>>
        ELSE /\ last_error' = [kind |-> err, attempt |-> attempt]
             /\ IF attempt = max_retries
                THEN /\ rpc' = "raised"
                     /\ raised' = [label |-> context, attempts |-> max_retries,
                                   error |-> [kind |-> err, attempt |-> attempt]]
                     /\ UNCHANGED <<attempt, gen_calls, rresult>>
                ELSE /\ attempt' = attempt + 1
                     /\ gen_calls' = gen_calls + 1
                     /\ UNCHANGED <<rpc, rresult, raised>>
  /\ UNCHANGED <<context, max_retries, has_schema, RetryFrame, ideaGenVars>>

InitRetry ==
  /\ InitState
  /\ RetryIdle
  /\ ExtractIdle
  /\ roles_config = [founders |-> <<"p1">>, advisors |-> <<"p2">>, investors |-> <<"p2">>]
  /\ skip_preflight = TRUE
  /\ use_mock = FALSE
  /\ concurrency = 1
  /\ max_iterations = 1
  /\ deliberation_enabled = FALSE
  /\ ideas_per_provider = 1
  /\ echo_names = TRUE
  /\ echo_ids = TRUE
  /\ echo_reviewers = TRUE
  /\ max_runs = MaxRuns

NextRetry ==
  \/ \E c \in Contexts, m \in 0..MaxAttempts, hs \in BOOLEAN : RetryCall(c, m, hs)
  \/ \E resp \in Responses : RetryGenerateEnd(resp)

SpecRetry == InitRetry /\ [][NextRetry]_vars

SpecPreflight == InitRetry /\ [][NextPreflight]_vars

\* ------------------------------------------------------------------------
\* idea_gen_task, step by step
\* ------------------------------------------------------------------------
IdeaGenContexts == {"idea generation (p1)", "idea generation (p2)"}

\* What the task does with the payload retry_json_call returned:
\* payload.get("ideas") raises AttributeError for a JSON array, and every
\* idea card is validated against IDEA_CARD_SCHEMA, outside the retry loop.
IdeaGenOutcome(payload) ==
  CASE payload = "barelist" -> "AttributeError"
    [] payload = "badschema" -> "ValueError"
    [] OTHER -> "returned"

\* idea_gen_task(provider) is entered: retry_json_call(..., schema=None, ...).
IdeaGenCall(c, m) ==
  /\ ig_pc \in {"idle", "returned", "ValueError", "AttributeError", "RuntimeError"}
  /\ rpc \in {"idle", "returned", "raised"}
  /\ ig_pc' = "calling"
  /\ RetryEnter(c, m, FALSE)
  /\ UNCHANGED RetryFrame

\* retry_json_call has returned or raised: the RuntimeError propagates, the
\* payload is validated and the idea cards are returned, or AttributeError
\* or ValueError is raised.
IdeaGenReturn ==
  /\ ig_pc = "calling"
  /\ rpc \in {"returned", "raised"}
  /\ ig_pc' = IF rpc = "raised" THEN "RuntimeError" ELSE IdeaGenOutcome(rresult)
  /\ UNCHANGED <<retryVars, RetryFrame>>

NextIdeaGen ==
  \/ \E c \in IdeaGenContexts, m \in 0..MaxAttempts : IdeaGenCall(c, m)
  \/ \E resp \in Responses : RetryGenerateEnd(resp)
  \/ IdeaGenReturn

SpecIdeaGen == InitRetry /\ [][NextIdeaGen]_vars

\* ------------------------------------------------------------------------
\* The advisor tasks of _run_founder_stage2, on their own
\* ------------------------------------------------------------------------
AdvisorTaskFrame == <<pipelineVars, retryVars, mapVars, reportVars, preflightVars,
                      ideaGenVars, extractVars>>

\* Round 1 of a founder: advisors = [a for a in advisors_pool if a.name !=
\* founder.name], and the tasks of the round are built.
AdvisorTasksCall(pool, founder) ==
  /\ ar_pc = "idle"
  /\ ar_pc' = "round"
  /\ ar_advisors' = SelectSeq(pool, LAMBDA a : a # founder)
  /\ ar_round' = 1
  /\ ar_tasks' = AdvisorTasks(SelectSeq(pool, LAMBDA a : a # founder), 1)
  /\ ar_prev' = <<>>
  /\ UNCHANGED AdvisorTaskFrame

\* The loop goes on to the next round and builds its tasks.
AdvisorTasksNextRound ==
  /\ ar_pc = "round"
  /\ ar_round < MaxRounds
  /\ ar_round' = ar_round + 1
  /\ ar_tasks' = AdvisorTasks(ar_advisors, ar_round + 1)
  /\ ar_prev' = ar_tasks
  /\ UNCHANGED <<ar_pc, ar_advisors, AdvisorTaskFrame>>

\* The advisor lists a role assignment may hold, up to MaxAdvisors names.
AdvisorPools == UNION { [1..k -> ProviderNames] : k \in 0..MaxAdvisors }

NextAdvisorTasks ==
  \/ \E pool \in AdvisorPools, founder \in ProviderNames :
       AdvisorTasksCall(pool, founder)
  \/ AdvisorTasksNextRound

SpecAdvisorTasks == InitRetry /\ [][NextAdvisorTasks]_vars

\* ------------------------------------------------------------------------
\* extract_json (providers/base.py)
\* ------------------------------------------------------------------------
\* A text is a sequence of tokens: the four brackets, "q" for a double quote,
\* "b" for a backslash, "F" for a code-fence marker (three backticks), "json"
\* for the four letters json, "w" for one whitespace character (a blank or a
\* newline) and "x" for the letter a.
Tokens == {"{", "}", "[", "]", "q", "b", "F", "json", "w", "x"}
PrefixTokens == Tokens \ {"{", "["}

\* The opening of a fenced block as a model writes it: ```json and a newline.
FencedPrefixes == { << "F", "json", "w" >> }

\* Well-formed JSON payloads: {}  []  {"a":[]}  [{}]  ["]"]  ["{"]  ["["]
\* ["\"]"]  ["\\"]  ["```"]  ["```a```"]  ["```json```"]
Payloads ==
  { << "{", "}" >>,
    << "[", "]" >>,
    << "{", "q", "x", "q", "x", "[", "]", "}" >>,
    << "[", "{", "}", "]" >>,
    << "[", "q", "]", "q", "]" >>,
    << "[", "q", "{", "q", "]" >>,
    << "[", "q", "[", "q", "]" >>,
    << "[", "q", "b", "q", "]", "q", "]" >>,
    << "[", "q", "b", "b", "q", "]" >>,
    << "[", "q", "F", "q", "]" >>,
    << "[", "q", "F", "x", "F", "q", "]" >>,
    << "[", "q", "F", "json", "F", "q", "]" >> }

TokenSeqs(S, n) == UNION { [1..k -> S] : k \in 0..n }

\* str.find / str.rfind, counting from 1; 0 for "not found".
Find(t, c) ==
  IF \E i \in DOMAIN t : t[i] = c
  THEN CHOOSE i \in DOMAIN t : t[i] = c /\ \A j \in 1..(i - 1) : t[j] # c
  ELSE 0
RFind(t, c) ==
  IF \E i \in DOMAIN t : t[i] = c
  THEN CHOOSE i \in DOMAIN t : t[i] = c /\ \A j \in (i + 1)..Len(t) : t[j] # c
  ELSE 0

\* str.strip(): the text without its leading and trailing whitespace.
Strip(t) ==
  LET solid == { i \in DOMAIN t : t[i] # "w" }
      first == CHOOSE i \in solid : \A j \in solid : i <= j
      last == CHOOSE i \in solid : \A j \in solid : j <= i
  IN IF solid = {} THEN <<>> ELSE SubSeq(t, first, last)

\* re.search(r"```(?:json)?\s*\n?(.*?)\n?\s*```", text, re.DOTALL) and
\* fenced.group(1).strip(): the match runs from the leftmost fence marker to
\* the next one after it; a json directly after the opening marker is taken
\* as the language tag, and the whitespace at both ends of what is left is
\* dropped.  Without two markers the text stays as it is.
StripFences(t) ==
  LET a == Find(t, "F")
      rest == IF a = 0 THEN <<>> ELSE SubSeq(t, a + 1, Len(t))
      b == Find(rest, "F")
      between == SubSeq(rest, 1, b - 1)
      untagged == IF between # <<>> /\ between[1] = "json"
                  THEN Tail(between) ELSE between
  IN IF a # 0 /\ b # 0 THEN Strip(untagged) ELSE t

\* The scan from `start`: the position of the close_char that brings the
\* depth back to 0, or 0 when the text ends first.
RECURSIVE MatchingClose(_, _, _, _, _, _, _)
MatchingClose(t, i, depth, in_string, escape_next, open_char, close_char) ==
  IF i > Len(t) THEN 0
  ELSE IF escape_next
  THEN MatchingClose(t, i + 1, depth, in_string, FALSE, open_char, close_char)
  ELSE IF t[i] = "b"
  THEN MatchingClose(t, i + 1, depth, in_string, in_string, open_char, close_char)
  ELSE IF t[i] = "q"
  THEN MatchingClose(t, i + 1, depth, ~in_string, FALSE, open_char, close_char)
  ELSE IF in_string
  THEN MatchingClose(t, i + 1, depth, in_string, FALSE, open_char, close_char)
  ELSE IF t[i] = open_char
  THEN MatchingClose(t, i + 1, depth + 1, in_string, FALSE, open_char, close_char)
  ELSE IF t[i] = close_char
  THEN IF depth - 1 = 0 THEN i
       ELSE MatchingClose(t, i + 1, depth - 1, in_string, FALSE, open_char, close_char)
  ELSE MatchingClose(t, i + 1, depth, in_string, FALSE, open_char, close_char)

\* The text after fence stripping: from the first "{" or "[" to its match, or
\* to the last close_char when there is no match, or the text as it is.
ExtractFrom(t) ==
  LET obj_start == Find(t, "{")
      arr_start == Find(t, "[")
      is_obj == arr_start = 0 \/ (obj_start # 0 /\ obj_start <= arr_start)
      start == IF is_obj THEN obj_start ELSE arr_start
      open_char == IF is_obj THEN "{" ELSE "["
      close_char == IF is_obj THEN "}" ELSE "]"
      match == MatchingClose(t, start, 0, FALSE, FALSE, open_char, close_char)
      last_close == RFind(t, close_char)
  IN IF obj_start = 0 /\ arr_start = 0 THEN t
     ELSE IF match # 0 THEN SubSeq(t, start, match)
     ELSE IF last_close > start THEN SubSeq(t, start, last_close)
     ELSE t

\* if not text or not text.strip(): return text
extract_json(text) ==
  IF text = <<>> \/ Strip(text) = <<>> THEN text
  ELSE ExtractFrom(StripFences(text))

ExtractFrame == <<pipelineVars, retryVars, mapVars, reportVars, preflightVars,
                  ideaGenVars, advisorTaskVars>>

\* extract_json is handed a prefix without "{" or "[" (any short one, or the
\* opening of a fenced block), a payload and a suffix.
InitExtract ==
  /\ InitState
  /\ RetryIdle
  /\ roles_config = [founders |-> <<"p1">>, advisors |-> <<"p2">>, investors |-> <<"p2">>]
  /\ skip_preflight = TRUE
  /\ use_mock = FALSE
  /\ concurrency = 1
  /\ max_iterations = 1
  /\ deliberation_enabled = FALSE
  /\ ideas_per_provider = 1
  /\ echo_names = TRUE
  /\ echo_ids = TRUE
  /\ echo_reviewers = TRUE
  /\ max_runs = MaxRuns
  /\ ex_pc = "called"
  /\ ex_payload \in Payloads
  /\ \E prefix \in TokenSeqs(PrefixTokens, MaxPrefix) \cup FencedPrefixes,
        suffix \in TokenSeqs(Tokens, MaxSuffix) :
       ex_text = prefix \o ex_payload \o suffix
  /\ ex_result = <<>>

ExtractReturn ==
  /\ ex_pc = "called"
  /\ ex_pc' = "returned"
  /\ ex_result' = extract_json(ex_text)
  /\ UNCHANGED <<ex_text, ex_payload, ExtractFrame>>

NextExtract == ExtractReturn

SpecExtract == InitExtract /\ [][NextExtract]_vars

\* ------------------------------------------------------------------------
\* _map_concurrently, step by step
\* ------------------------------------------------------------------------
\* What func returns for an item.
Func(item) == [result_of |-> item]

\* Sequences over S of length at most n.
SeqsUpTo(S, n) == UNION { [1..k -> S] : k \in 0..n }

NextResultCompleted ==
  IF Len(m_out) < Len(m_order) THEN m_order[Len(m_out) + 1] ELSE Len(m_out) + 1

\* The position of the result the generator yields next: `for item in items`,
\* `for result in executor.map(func, items)`.
NextResult == Len(m_out) + 1

MapFrame == <<pipelineVars, retryVars, reportVars, preflightVars, ideaGenVars,
              advisorTaskVars, extractVars>>

\* list(_map_concurrently(func, items, concurrency)) is entered.
MapCall(items, conc) ==
  /\ m_pc = "idle"
  /\ m_pc' = "running"
  /\ m_items' = items
  /\ m_conc' = conc
  /\ m_st' = [i \in DOMAIN items |-> "pending"]
  /\ m_calls' = [i \in DOMAIN items |-> 0]
  /\ m_val' = [i \in DOMAIN items |-> NoVal]
  /\ m_order' = <<>>
  /\ m_out' = <<>>
  /\ UNCHANGED MapFrame

\* func is called for the i-th item: by the generator itself once the
\* previous result has been taken (concurrency <= 1), or by a pool worker.
MapStart(i) ==
  /\ m_pc = "running"
  /\ i \in DOMAIN m_items
  /\ MapCanStart(m_st, i, m_conc)
  /\ m_conc <= 1 => Len(m_out) = i - 1
  /\ m_st' = [m_st EXCEPT ![i] = "inflight"]
  /\ m_calls' = [m_calls EXCEPT ![i] = @ + 1]
  /\ UNCHANGED <<m_pc, m_items, m_conc, m_val, m_order, m_out, MapFrame>>

\* The call for the i-th item returns or raises.
MapEnd(i, ok) ==
  /\ m_pc = "running"
  /\ i \in DOMAIN m_items
  /\ m_st[i] = "inflight"
  /\ m_st' = [m_st EXCEPT ![i] = IF ok THEN "ok" ELSE "failed"]
  /\ m_val' = [m_val EXCEPT ![i] = IF ok THEN Func(m_items[i]) ELSE NoVal]
  /\ m_order' = Append(m_order, i)
  /\ UNCHANGED <<m_pc, m_items, m_conc, m_calls, m_out, MapFrame>>

\* yield: the next result is handed to the consumer.
MapYield ==
  /\ m_pc = "running"
  /\ NextResult \in DOMAIN m_items
  /\ m_st[NextResult] = "ok"
  /\ m_out' = Append(m_out, m_val[NextResult])
  /\ UNCHANGED <<m_pc, m_items, m_conc, m_st, m_calls, m_val, m_order, MapFrame>>

\* The generator is exhausted.
MapReturn ==
  /\ m_pc = "running"
  /\ Len(m_out) = Len(m_items)
  /\ m_pc' = "returned"
  /\ UNCHANGED <<m_items, m_conc, m_st, m_calls, m_val, m_order, m_out, MapFrame>>

\* The next result is an exception: it reaches the consumer once the pool
\* has shut down.
MapRaise ==
  /\ m_pc = "running"
  /\ NextResult \in DOMAIN m_items
  /\ m_st[NextResult] = "failed"
  /\ \A i \in DOMAIN m_st : m_st[i] # "inflight"
  /\ m_pc' = "raised"
  /\ UNCHANGED <<m_items, m_conc, m_st, m_calls, m_val, m_order, m_out, MapFrame>>

NextMap ==
  \/ \E items \in SeqsUpTo(MapItems, MaxItems), conc \in 0..MaxConcurrency :
       MapCall(items, conc)
  \/ \E i \in 1..MaxItems : MapStart(i)
  \/ \E i \in 1..MaxItems, ok \in BOOLEAN : MapEnd(i, ok)
  \/ MapYield
  \/ MapReturn
  \/ MapRaise

SpecMap == InitRetry /\ [][NextMap]_vars

\* ------------------------------------------------------------------------
\* build_portfolio_report, on its own
\* ------------------------------------------------------------------------
\* The decisions handed in: any investor's decision on any provider's idea.
ReportDecisions ==
  { Decision([investor |-> "investor", founder |-> f, idea_id |-> IdeaId(f, 1)], d) :
      f \in ProviderNames, d \in ReportDecisionValues }

ReportFrame == <<pipelineVars, retryVars, mapVars, preflightVars, ideaGenVars,
                 advisorTaskVars, extractVars>>

ReportCall(providers, pitchers, decisions) ==
  /\ r_pc = "idle"
  /\ r_pc' = "called"
  /\ r_providers' = providers
  /\ r_plans' = [f \in Range(providers) |-> PlanRecord(f, Idea(f, 1), 1, 0)]
  /\ r_pitches' = LET ps == SelectSeq(providers, LAMBDA f : f \in pitchers)
                  IN [i \in DOMAIN ps |-> Pitch(ps[i], PlanRecord(ps[i], Idea(ps[i], 1), 1, 0))]
  /\ r_decisions' = decisions
  /\ UNCHANGED <<r_rows, ReportFrame>>

ReportReturn ==
  /\ r_pc = "called"
  /\ r_rows' = BuildPortfolioReport(r_providers, r_pitches, r_decisions, r_plans)
  /\ r_pc' = "returned"
  /\ UNCHANGED <<r_providers, r_pitches, r_decisions, r_plans, ReportFrame>>

NextReport ==
  \/ \E providers \in ReportProviders, pitchers \in ReportPitchers,
        decisions \in SeqsUpTo(ReportDecisions, MaxDecisions) :
       ReportCall(providers, pitchers, decisions)
  \/ ReportReturn

SpecReport == InitRetry /\ [][NextReport]_vars

\* ========================================================================
\* Properties
\* ========================================================================
Recorded(c) == Range(FoundersDone(c))

Resumed == run_no >= 2

Stage2Passed == pc \in {"s2_flag", "s3", "s3_pitch", "s3_invest", "complete"}

\* C1: a founder name once written to the checkpoint's stage2_founders_done
\* list is never removed from it, across every sequence of invocations on
\* the run directory.
C1_FoundersDoneNeverRemoved ==
  [][Recorded(cp) \subseteq Recorded(cp')]_vars

\* C2: on resume with stage2_complete unset, no Stage-2 actor call is made
\* on behalf of a founder listed in the loaded stage2_founders_done, and once
\* Stage 2 has returned every founder not listed has run its loop.
C2_ResumeRunsExactlyRemaining ==
  (Resumed /\ "stage2_complete" \notin checkpoint.keys) =>
    /\ \A f \in FounderNames \cap Recorded(checkpoint) :
         s2calls[f] = 0 /\ fpc[f] = "notrun"
    /\ Stage2Passed =>
         \A f \in FounderNames \ Recorded(checkpoint) :
           s2calls[f] >= 1 /\ fpc[f] = "done"

C2_Witness ==
  /\ Resumed
  /\ "stage2_complete" \notin checkpoint.keys
  /\ Stage2Passed
  /\ FounderNames \cap Recorded(checkpoint) # {}
  /\ \E f \in FounderNames \ Recorded(checkpoint) : fpc[f] = "done"

\* C3: a founder whose Stage-2 loop has completed is recorded in
\* stage2_founders_done without waiting for any other founder: the main
\* thread is never blocked on another founder's unfinished task while a
\* completed founder is still missing from the checkpoint.
C3_RecordedWithoutWaiting ==
  \A f \in Range(founders_list) :
    (fpc[f] = "done" /\ f \notin Recorded(cp)) =>
      ~(/\ pc = "s2_run"
        /\ nxt <= Len(founders_list)
        /\ founders_list[nxt] # f
        /\ Running(founders_list[nxt]))

\* C4: checkpoint updates are serialized and lose nothing: the object read
\* for a merge is still the one on disk when the merge is written, and a
\* founder of the current Stage-2 invocation that is recorded stays recorded
\* by every later write of that invocation.
C4_SerializedNoLostUpdate ==
  /\ [](pc = "s2_save" => cp_read = cp)
  /\ [][run_no' = run_no =>
          (Recorded(cp) \cap Range(founders_list)) \subseteq Recorded(cp')]_vars

C4_Witness ==
  /\ concurrency >= 2
  /\ pc = "s2_run"
  /\ nxt > 2
  /\ Cardinality(Recorded(cp) \cap Range(founders_list)) >= 2

\* C5: a stage whose completion flag is in the checkpoint loaded at resume
\* makes no actor call in the resumed run, and its output is reloaded from
\* the collection persisted by an earlier invocation, keyed by founder name.
ReloadedFrom(m, file) ==
  /\ DOMAIN m = { file[i].founder_provider : i \in DOMAIN file }
  /\ \A f \in DOMAIN m :
       /\ m[f] \in Range(file)
       /\ m[f].founder_provider = f
       /\ m[f].run < run_no

C5_CompletedStagesSkipped ==
  /\ "stage1_complete" \in checkpoint.keys =>
       /\ calls.s1 = 0
       /\ pc # "s1" => ReloadedFrom(selections, sel_file)
  /\ "stage2_complete" \in checkpoint.keys =>
       /\ \A f \in ProviderNames : s2calls[f] = 0 /\ fpc[f] = "notrun"
       /\ pc \notin {"s1", "s2"} => ReloadedFrom(final_plans, fp_file)

C5_Witness ==
  /\ Resumed
  /\ "stage1_complete" \in checkpoint.keys
  /\ "stage2_complete" \in checkpoint.keys
  /\ pc = "s3_pitch"
  /\ DOMAIN final_plans # {}

\* C6: a founder's loop stops at a round r below max_rounds if and only if
\* r >= 2, the round's readiness signal is all-ready and the round's score is
\* at least 7.5; so it never stops at round 1 when max_rounds >= 2.
RoundDecided(f) ==
  /\ fpc[f] \in {"review", "delib"}
  /\ fpc'[f] \in {"done", "iterate"}

SignalReady(f) ==
  IF fpc[f] = "delib" THEN verdict'[f].ready
  ELSE \A i \in DOMAIN rev[f] : rev[f][i].ready

SignalScoreOk(f) ==
  IF fpc[f] = "delib" THEN verdict'[f].score >= ReadinessThreshold
  ELSE /\ Len(rev[f]) > 0
       /\ SumScores(rev[f]) * 10 >= 150 * Len(rev[f])

C6_StopsEarlyIffConverged ==
  [][\A f \in ProviderNames :
       (RoundDecided(f) /\ round_num[f] < max_iterations) =>
         (fpc'[f] = "done" <=>
            (round_num[f] >= 2 /\ SignalReady(f) /\ SignalScoreOk(f)))]_vars

C6_Witness ==
  \E f \in ProviderNames :
    /\ fpc[f] = "done"
    /\ round_num[f] = 2
    /\ max_iterations >= 3
    /\ ~deliberation_enabled
    /\ Len(rev[f]) >= 2

\* C7: a founder's loop runs at most max_rounds review rounds: a round
\* max_rounds that ends without convergence stops the loop, no revision
\* follows it, and the plan current at that point becomes the final plan.
C7_StopsAtMaxRounds ==
  /\ [](\A f \in ProviderNames :
          /\ round_num[f] <= max_iterations
          /\ fpc[f] = "iterate" => round_num[f] < max_iterations
          /\ (fpc[f] = "done" /\ Stage2Passed) =>
               /\ f \in DOMAIN final_plans
               /\ final_plans[f] = plan[f]
               /\ plan[f].version = Max(round_num[f] - 1, 0)
               /\ plan[f].run = run_no)
  /\ [][\A f \in ProviderNames :
          (RoundDecided(f) /\ round_num[f] = max_iterations) =>
            fpc'[f] = "done"]_vars

C7_Witness ==
  \E f \in ProviderNames :
    /\ fpc[f] = "done"
    /\ Stage2Passed
    /\ max_iterations >= 2
    /\ round_num[f] = max_iterations
    /\ ~deliberation_enabled
    /\ ~AllReady(rev[f])

\* C8: retry_json_call invokes generate once per attempt and at most
\* max_attempts times, returns the first response that parses and (with a
\* contract) validates, calls nothing after it, and when every attempt fails
\* raises an error carrying the label and the last attempt's error.
Acceptable(resp, schema_given) ==
  resp = "valid" \/ (resp \in {"badschema", "barelist"} /\ ~schema_given)

ErrorKind(resp) ==
  CASE resp = "provider_error" -> "ProviderError"
    [] resp = "badjson" -> "invalid_json"
    [] resp \in {"badschema", "barelist"} -> "schema_validation"
    [] OTHER -> "none"

C8_RetryContract ==
  /\ gen_calls <= Max(max_retries, 0)
  /\ gen_calls = attempt
  /\ rpc = "generating" => Len(gen_log) = gen_calls - 1
  /\ rpc \in {"returned", "raised"} => Len(gen_log) = gen_calls
  /\ rpc # "returned" =>
       \A i \in DOMAIN gen_log : ~Acceptable(gen_log[i], has_schema)
  /\ rpc = "returned" =>
       /\ gen_calls >= 1
       /\ Acceptable(gen_log[gen_calls], has_schema)
       /\ \A i \in 1..(gen_calls - 1) : ~Acceptable(gen_log[i], has_schema)
       /\ rresult = gen_log[gen_calls]
       /\ raised = NotRaised
  /\ rpc = "raised" =>
       /\ gen_calls = max_retries
       /\ raised.label = context
       /\ max_retries >= 1 =>
            raised.error = [kind |-> ErrorKind(gen_log[max_retries]),
                            attempt |-> max_retries]

C8_Witness ==
  /\ rpc = "returned"
  /\ has_schema
  /\ gen_calls = 3
  /\ gen_log[1] = "badjson"
  /\ gen_log[2] = "badschema"

\* C9: retry_json_call does not call generate again after generate has
\* raised a transport-level failure (ProviderError).
C9_NoRetryOnProviderError ==
  \A i \in DOMAIN gen_log : gen_log[i] = "provider_error" => gen_calls <= i

\* C10: the number of actor calls in flight never exceeds
\* max(1, concurrency), nested fan-outs included.
C10_InFlightBounded == InFlightCalls <= Max(1, concurrency)

\* C11: for every concurrency and every completion order of the tasks,
\* _map_concurrently calls func exactly once per item and returns a sequence
\* whose i-th element is func of the i-th item: func is never called twice
\* for an item, what has been yielded so far is the results of the first
\* items in item order, and a map that has returned has called func once for
\* every item and yielded a result for each.
C11_MapInItemOrder ==
  /\ \A i \in DOMAIN m_items : m_calls[i] <= 1
  /\ Len(m_out) <= Len(m_items)
  /\ \A i \in DOMAIN m_out : m_out[i] = Func(m_items[i])
  /\ m_pc = "returned" =>
       /\ Len(m_out) = Len(m_items)
       /\ \A i \in DOMAIN m_items : m_calls[i] = 1

C11_Witness ==
  /\ m_pc = "returned"
  /\ m_conc >= 2
  /\ Len(m_items) = 3
  /\ m_items[1] # m_items[2]
  /\ m_order[1] = 2

\* C12: if any task of a fan-out batch fails terminally, the enclosing stage
\* raises, that stage's completion flag is not written, no later stage makes
\* any actor call and the run ends in failure; the completion flags and the
\* founder entries persisted before the failure are left unchanged.
StageFlags == {"stage1_complete", "stage2_complete", "stage3_complete"}

BatchTaskFailed == \E i \in DOMAIN batch : batch[i].st = "failed"

Stage1TaskFailed == BatchTaskFailed /\ s3_idx = 0

Stage3TaskFailed == BatchTaskFailed /\ s3_idx >= 1

Stage2TaskFailed ==
  \E f \in ProviderNames :
    \/ fpc[f] = "failed"
    \/ \E i \in DOMAIN rev[f] : rev[f][i].st = "failed"

TaskFailed == Stage1TaskFailed \/ Stage2TaskFailed \/ Stage3TaskFailed

C12_FailureAbortsAndPreserves ==
  /\ [](Stage1TaskFailed =>
          /\ pc \in {"s1_ideas", "s1_feedback", "s1_select", "failed"}
          /\ "stage1_complete" \notin cp.keys
          /\ calls.s3 = 0
          /\ \A f \in ProviderNames : s2calls[f] = 0)
  /\ [](Stage2TaskFailed =>
          /\ pc \in {"s2_run", "s2_save", "s2_abort", "failed"}
          /\ "stage2_complete" \notin cp.keys
          /\ calls.s3 = 0)
  /\ [](Stage3TaskFailed => pc \in {"s3_invest", "failed"})
  /\ [][TaskFailed =>
          /\ cp'.keys \cap StageFlags = cp.keys \cap StageFlags
          /\ Recorded(cp) \subseteq Recorded(cp')]_vars

\* C13: resuming a run directory whose checkpoint records all three stages
\* complete skips every stage: the resumed invocation makes no actor call in
\* Stage 1, Stage 2 or Stage 3.
C13_CompleteRunSkipsEveryStage ==
  (Resumed /\ StageFlags \subseteq checkpoint.keys) =>
    /\ calls.s1 = 0
    /\ \A f \in ProviderNames : s2calls[f] = 0
    /\ calls.s3 = 0

\* C14: every stage-completion checkpoint write (after Stage 1, after Stage 2
\* and after Stage 3) preserves every field already present in the checkpoint
\* on disk other than the completion flags it sets: the keys on disk stay and
\* the stage2_founders_done list keeps its value.  The writes after Stage 2
\* and Stage 3 merge with the checkpoint read from disk; the write after
\* Stage 1 replaces the file by {"stage1_complete": true}, and whenever it is
\* made, in a fresh run or in a resumed one, the run directory holds no
\* checkpoint, so that it has no field to lose.
Stage1Write == pc \in {"s1_feedback", "s1_select"} /\ pc' = "s2"

StageCompletionWrite ==
  \/ Stage1Write
  \/ pc = "s2_flag" /\ pc' = "s3"
  \/ pc \in {"s3", "s3_invest"} /\ pc' = "complete"

C14_StageWritesPreserveFields ==
  [][/\ StageCompletionWrite =>
          /\ cp.keys \subseteq cp'.keys
          /\ FoundersDone(cp') = FoundersDone(cp)
          /\ cp'.keys \ cp.keys \subseteq StageFlags
          /\ cp'.keys \cap StageFlags # {}
     /\ Stage1Write =>
          /\ cp = EmptyCheckpoint
          /\ cp' = Flags({"stage1_complete"})]_vars

\* A resumed run whose first attempt failed in Stage 1: it has made the
\* Stage-1 write itself, then recorded both founders, and its Stage-2
\* completion write has kept the list.
C14_Witness ==
  /\ pc = "s3"
  /\ Resumed
  /\ \E i \in DOMAIN events.log :
       events.log[i] = PipelineEvent("stage_complete", "stage1")
  /\ cp.keys = {"stage1_complete", "stage2_complete", "stage2_founders_done"}
  /\ Len(cp.done) = 2

\* C15: any failure that aborts a stage surfaces from run_pipeline as one
\* summarized RuntimeError, with exactly one PIPELINE_ERROR event emitted and
\* no PIPELINE_COMPLETE event, whatever the kind of the underlying failure.
C15_OneSummarizedFailure ==
  pc = "failed" =>
    /\ surfaced = "RuntimeError"
    /\ events.pipeline_error = 1
    /\ events.pipeline_complete = 0

\* C16: Stage 3 never silently skips a founder: in every run that completes
\* Stage 3 successfully, every founder of the founder role has exactly one
\* pitch and a portfolio row built from that pitch's decisions.
PitchesOf(f) == { i \in DOMAIN all_pitches : all_pitches[i].founder_provider = f }

RowsOf(f) == { i \in DOMAIN report : report[i].founder = f }

C16_NoFounderSkipped ==
  pc = "complete" =>
    \A f \in FounderNames :
      /\ Cardinality(PitchesOf(f)) = 1
      /\ Cardinality(RowsOf(f)) = 1
      /\ \A i \in RowsOf(f) :
           /\ report[i].has_pitch
           /\ report[i].investors_total = Len(InvestorsOf(f))

\* C17: Stage 1 issues exactly one review task per (idea, advisor) pair whose
\* advisor is not the founder that proposed the idea, and none for a
\* self-review, so the number of feedback records equals the number of such
\* pairs.
ReviewPairs ==
  { t \in FounderNames \X IdeaCounts \X Range(roles.advisors) :
      /\ t[2] >= 1
      /\ t[2] <= all_ideas[t[1]]
      /\ t[3] # t[1] }

TasksOfPair(t) ==
  { i \in DOMAIN batch :
      batch[i].item = [idea |-> Idea(t[1], t[2]), reviewer |-> t[3]] }

C17_OneReviewPerPair ==
  /\ pc = "s1_feedback" =>
       /\ \A t \in ReviewPairs : Cardinality(TasksOfPair(t)) = 1
       /\ Len(batch) = Cardinality(ReviewPairs)
       /\ \A i \in DOMAIN batch : batch[i].item.reviewer # batch[i].item.idea.idea_id[1]
       /\ BatchDone => calls.s1 = Len(Founders) + Cardinality(ReviewPairs)
  /\ pc = "s1_select" =>
       /\ Len(all_feedback) = Cardinality(ReviewPairs)
       /\ \A t \in ReviewPairs :
            Cardinality({ i \in DOMAIN all_feedback :
                            all_feedback[i] = [idea_id |-> IdeaId(t[1], t[2]),
                                               reviewer_provider |-> t[3]] }) = 1

\* C18: when ideas_per_provider is 1, every selection is produced without any
\* selection actor call, its selected_idea_id is the id of the founder's
\* generated idea, and the refined idea carried into Stage 2 is that idea
\* unchanged.
C18_AutoSelectSingleIdea ==
  ideas_per_provider = 1 =>
    /\ calls.select = 0
    /\ pc # "s1_select"
    /\ \A f \in DOMAIN selections :
         /\ f \in FounderNames
         /\ selections[f].founder_provider = f
         /\ selections[f].selected_idea_id = IdeaId(f, 1)
         /\ selections[f].refined_idea = Idea(f, 1)
    /\ pc \in {"s2", "s2_run", "s2_save", "s2_abort", "s2_flag"} =>
         DOMAIN selections = FounderNames
    /\ \A f \in ProviderNames :
         plan[f] # NoPlan => plan[f].idea_id = IdeaId(f, 1)

C18_Witness ==
  /\ ideas_per_provider = 1
  /\ ~Resumed
  /\ pc = "s2_run"
  /\ calls.s1 >= 4
  /\ \A f \in FounderNames : plan[f] # NoPlan

\* C19: in Stage 3, for every pitch produced, every role-assigned investor
\* other than the pitching founder evaluates it exactly once and no investor
\* evaluates its own pitch, so the number of decisions equals the number of
\* (pitching founder, investor) pairs whose investor is not the founder.
PitchPairs(pitches) ==
  { t \in (DOMAIN pitches) \X Range(roles.investors) :
      t[2] # pitches[t[1]].founder_provider }

DecisionsOfPair(pitches, t) ==
  { i \in DOMAIN all_decisions :
      /\ all_decisions[i].idea_id = pitches[t[1]].idea_id
      /\ all_decisions[i].investor_provider = t[2] }

EvaluatedPitches ==
  IF pc = "s3_invest" THEN SubSeq(all_pitches, 1, Len(all_pitches) - 1)
  ELSE all_pitches

C19_EveryInvestorOncePerPitch ==
  /\ pc = "s3_invest" =>
       LET founder == Founders[s3_idx]
       IN /\ all_pitches[Len(all_pitches)].founder_provider = founder
          /\ \A a \in Range(roles.investors) \ {founder} :
               Cardinality({ i \in DOMAIN batch : batch[i].item.investor = a }) = 1
          /\ \A i \in DOMAIN batch :
               /\ batch[i].item.investor \in Range(roles.investors) \ {founder}
               /\ batch[i].item.idea_id = all_pitches[Len(all_pitches)].idea_id
  /\ pc \in {"s3_pitch", "s3_invest", "complete"} =>
       /\ \A t \in PitchPairs(EvaluatedPitches) :
            Cardinality(DecisionsOfPair(EvaluatedPitches, t)) = 1
       /\ Len(all_decisions) = Cardinality(PitchPairs(EvaluatedPitches))
  /\ pc = "complete" =>
       calls.s3 = Len(all_pitches) + Cardinality(PitchPairs(all_pitches))

\* C20: build_portfolio_report returns exactly one row per founder, the ranks
\* are exactly 1..N, a founder with more invest decisions ranks above one with
\* fewer, and rows that tie on the sort key keep their input order.
InvestCount(f) ==
  Cardinality({ k \in DOMAIN r_decisions :
                  /\ r_decisions[k].idea_id = r_plans[f].idea_id
                  /\ r_decisions[k].decision = "invest" })

InputPosition(f) == CHOOSE i \in DOMAIN r_providers : r_providers[i] = f

SameSortKey(a, b) ==
  a.investors_in = b.investors_in /\ a.avg_conviction = b.avg_conviction

C20_ReportRanksFounders ==
  r_pc = "returned" =>
    /\ Len(r_rows) = Len(r_providers)
    /\ \A i \in DOMAIN r_providers :
         Cardinality({ j \in DOMAIN r_rows : r_rows[j].founder = r_providers[i] }) = 1
    /\ \A j \in DOMAIN r_rows : r_rows[j].rank = j
    /\ \A i, j \in DOMAIN r_rows :
         InvestCount(r_rows[i].founder) > InvestCount(r_rows[j].founder) => i < j
    /\ \A i, j \in DOMAIN r_rows :
         (i < j /\ SameSortKey(r_rows[i], r_rows[j])) =>
           InputPosition(r_rows[i].founder) < InputPosition(r_rows[j].founder)

C20_Witness ==
  /\ r_pc = "returned"
  /\ Len(r_rows) = 3
  /\ r_rows[1].founder = "p3"
  /\ r_rows[1].investors_in = 1
  /\ SameSortKey(r_rows[2], r_rows[3])
  /\ r_rows[2].investors_total = 1

\* C21: among founders with the same invest count, a founder whose mean
\* conviction is strictly higher always ranks strictly above a founder whose
\* mean conviction is lower, whatever their input order.
DecisionsFor(f) ==
  SelectSeq(r_decisions, LAMBDA d : d.idea_id = r_plans[f].idea_id)

\* mean(f) > mean(g), the mean of no decisions being 0
MeanHigher(f, g) ==
  SumConviction(DecisionsFor(f)) * Max(Len(DecisionsFor(g)), 1)
    > SumConviction(DecisionsFor(g)) * Max(Len(DecisionsFor(f)), 1)

C21_HigherMeanRanksAbove ==
  r_pc = "returned" =>
    \A i, j \in DOMAIN r_rows :
      (/\ InvestCount(r_rows[i].founder) = InvestCount(r_rows[j].founder)
       /\ MeanHigher(r_rows[i].founder, r_rows[j].founder)) => i < j

\* C22: run_preflight probes every non-mock actor exactly once even when an
\* earlier probe has failed, never calls a mock actor, and raises exactly one
\* PreflightError if and only if at least one probe failed; that error names
\* every failing actor and no passing actor.
FailedProbes == { i \in DOMAIN pf_results : ~pf_results[i].ok }
C22_PreflightProbesAllAndNamesFailures ==
  /\ \A i \in DOMAIN pf_providers :
       /\ pf_calls[i] <= 1
       /\ pf_providers[i].mock => pf_calls[i] = 0
  /\ pf_pc \in {"returned", "raised"} =>
       /\ \A i \in DOMAIN pf_providers :
            ~pf_providers[i].mock => pf_calls[i] = 1
       /\ Len(pf_raised) = (IF FailedProbes # {} THEN 1 ELSE 0)
       /\ pf_pc = "raised" <=> FailedProbes # {}
       /\ pf_pc = "raised" =>
            Range(pf_raised[1]) = { pf_providers[i].name : i \in FailedProbes }
C22_Witness ==
  /\ pc = "idle"
  /\ pf_pc = "raised"
  /\ Len(pf_providers) = 3
  /\ pf_providers[2].mock
  /\ pf_calls = <<1, 0, 1>>
  /\ pf_raised = << <<"p1">> >>
  /\ pf_results[3].ok

\* C23: unless preflight is skipped, no stage actor call is made and no run
\* directory or checkpoint is created before preflight has succeeded for every
\* actor; after a preflight failure no stage ever starts.
StageStarted == pc \notin {"idle", "preflight", "complete", "failed"}
PreflightPassed ==
  /\ pc = "preflight"
  /\ pf_pc = "returned"
  /\ Len(pf_results) = Len(Providers)
  /\ \A i \in DOMAIN pf_results :
       pf_results[i].st = "done" /\ pf_results[i].ok /\ pf_calls[i] = 1
C23_NothingBeforePreflightPassed ==
  [][(~skip_preflight /\ ~use_mock) =>
       /\ ~StageStarted =>
            /\ calls' \in {calls, NoCalls}
            /\ s2calls' \in {s2calls, [f \in ProviderNames |-> 0]}
            /\ cp' = cp
            /\ plan_files' = plan_files /\ sel_file' = sel_file /\ fp_file' = fp_file
            /\ run_dir' # run_dir => PreflightPassed
            /\ StageStarted' => PreflightPassed
       /\ (pc = "preflight" /\ pf_pc = "raised") => pc' = "failed"
       /\ (pc = "failed" /\ surfaced = "PreflightError") => ~StageStarted']_vars
C23_Witness ==
  /\ ~skip_preflight /\ ~use_mock
  /\ run_no = 2
  /\ pc = "failed"
  /\ surfaced = "PreflightError"
  /\ run_dir
  /\ "stage1_complete" \in cp.keys

\* C24: a role configuration that names an unknown actor, or leaves founders,
\* advisors or investors empty, raises a configuration error before any stage
\* makes an actor call and before any checkpoint is written, and the error is
\* never retried.
UnknownOrEmptyRole ==
  /\ DOMAIN roles_config # {}
  /\ \E role \in {"founders", "advisors", "investors"} :
       \/ role \notin DOMAIN roles_config
       \/ roles_config[role] = <<>>
       \/ \E i \in DOMAIN roles_config[role] : roles_config[role][i] \notin ProviderNames
RolesResolved ==
  \/ pc \in {"idle", "complete", "failed"} /\ (skip_preflight \/ use_mock)
                                           /\ run_no' = run_no + 1
  \/ pc = "preflight" /\ pf_pc = "returned" /\ pc' # pc
C24_BadRolesFailBeforeAnyStage ==
  [][UnknownOrEmptyRole =>
       /\ ~StageStarted'
       /\ calls' = NoCalls
       /\ s2calls' = [f \in ProviderNames |-> 0]
       /\ cp' = cp /\ run_dir' = run_dir
       /\ RolesResolved => (pc' = "failed" /\ surfaced' = "ValueError")
       /\ (pc = "failed" /\ surfaced = "ValueError") =>
            \/ run_no' = run_no + 1
            \/ pc' = "failed" /\ surfaced' = "ValueError"]_vars
C24_Witness ==
  /\ UnknownOrEmptyRole
  /\ pc = "failed"
  /\ surfaced = "ValueError"
  /\ ~skip_preflight /\ ~use_mock
  /\ run_no = 2
  /\ ~run_dir
  /\ cp = EmptyCheckpoint

\* C25: every Feedback, Review and Decision record persisted by a run carries
\* an idea id equal to the idea id of an Idea, Plan or Pitch record produced
\* earlier in the same run, whatever idea id the reviewing actor put in its
\* response.
ProducedIdeaIds ==
  { IdeaId(f, k) : f \in ProviderNames, k \in 1..Max(ideas_per_provider, 2) }
    \cup { plan[f].idea_id : f \in { g \in ProviderNames : plan[g] # NoPlan } }
    \cup { final_plans[k].idea_id : k \in DOMAIN final_plans }
    \cup { all_pitches[i].idea_id : i \in DOMAIN all_pitches }
C25_RecordsCarryRunIdeaIds ==
  /\ \A i \in DOMAIN all_feedback : all_feedback[i].idea_id \in ProducedIdeaIds
  /\ \A f \in ProviderNames : \A i \in DOMAIN rev[f] :
       rev[f][i].st = "ok" => rev[f][i].idea_id \in ProducedIdeaIds
  /\ \A i \in DOMAIN all_decisions : all_decisions[i].idea_id \in ProducedIdeaIds

\* C26: whenever the checkpoint records stage2_complete, after a fresh run or
\* any sequence of crashes and partial resumes, its stage2_founders_done list
\* contains every founder of the founder role.
C26_CompleteStage2ListsEveryFounder ==
  StageComplete(cp, "stage2_complete") => FounderNames \subseteq Recorded(cp)

\* C27: for each founder, the Selection is synthesized without an actor call
\* if and only if that founder produced exactly one idea; a founder that
\* produced more than one idea always goes through a selection call given all
\* of that founder's ideas and their feedback.
C27_SynthesizedIffOneIdea ==
  [][pc = "s1_feedback" =>
       \A f \in FounderNames :
         /\ (pc' = "s2" /\ f \in DOMAIN selections') => all_ideas[f] = 1
         /\ (pc' = "s1_select" /\ \E i \in DOMAIN batch' : batch'[i].item = f)
              => all_ideas[f] # 1]_vars

\* C28: in Stage-1 idea generation, a response that parses but whose idea cards
\* fail the idea contract counts as a failed attempt and is retried, up to the
\* attempt budget, before the failure aborts the run.
C28_BadIdeaCardsAreRetried ==
  /\ \A i \in DOMAIN gen_log :
       (gen_log[i] = "badschema" /\ i < max_retries) => gen_calls > i
  /\ ig_pc = "ValueError" => gen_calls = max_retries

\* C29: for each founder, no review call of round k+1 starts before every
\* review of round k has returned and the round-k revision has been produced;
\* no Stage-2 call for a founder starts before that founder's Stage-1
\* selection exists; no Stage-3 call starts before every founder has a final
\* plan.
ReviewCallStarts(f) ==
  \E i \in DOMAIN rev[f] :
    rev[f][i].st = "pending" /\ i \in DOMAIN rev'[f] /\ rev'[f][i].st = "inflight"
\* The founder's Stage-2 cycle has returned its final plan: in this
\* invocation, or in an earlier one according to the checkpoint loaded, the
\* plan being on disk.
HasFinalPlan(f) ==
  \/ fpc[f] = "done" /\ plan[f] # NoPlan
  \/ /\ f \in Recorded(checkpoint) \/ StageComplete(checkpoint, "stage2_complete")
     /\ plan_files[f] # <<>>
C29_StagesAndRoundsInOrder ==
  [][\A f \in ProviderNames :
       /\ (round_num[f] >= 1 /\ round_num'[f] = round_num[f] + 1) =>
            /\ \A i \in DOMAIN rev[f] : rev[f][i].st = "ok"
            /\ plan'[f].version = round_num[f]
            /\ plan_files'[f][round_num[f] + 1] = plan'[f]
            /\ \A i \in DOMAIN rev'[f] : rev'[f][i].st = "pending"
       /\ ReviewCallStarts(f) =>
            /\ round_num[f] >= 1
            /\ plan[f].version = round_num[f] - 1
       /\ s2calls'[f] > s2calls[f] =>
            /\ f \in DOMAIN selections
            /\ \E i \in DOMAIN sel_file : sel_file[i] = selections[f]
       /\ calls'.s3 > calls.s3 =>
            \A g \in FounderNames : HasFinalPlan(g)]_vars
C29_Witness ==
  /\ pc = "s3_invest"
  /\ run_no = 2
  /\ \E f \in FounderNames : round_num[f] = 2 /\ plan[f].version = 1 /\ fpc[f] = "done"
  /\ \E f \in FounderNames : fpc[f] = "notrun" /\ f \in Recorded(checkpoint)

\* C30: in round r the advisor at position i of a founder's advisor pool
\* (positions from 0) is assigned the role with index (i + r - 1) mod 3;
\* consequently whenever the pool has at least 3 advisors every defined role
\* is assigned to some advisor in every round, and each advisor's role differs
\* between consecutive rounds.
RoleAtIndex(k) ==
  CASE k = 0 -> "market_strategist"
    [] k = 1 -> "technical_advisor"
    [] k = 2 -> "financial_advisor"
C30_RolesRotate ==
  ar_pc = "round" =>
    /\ Len(ar_tasks) = Len(ar_advisors)
    /\ \A i \in DOMAIN ar_tasks :
         /\ ar_tasks[i].advisor = ar_advisors[i]
         /\ ar_tasks[i].role = RoleAtIndex(((i - 1) + ar_round - 1) % 3)
    /\ Len(ar_advisors) >= 3 =>
         { ar_tasks[i].role : i \in DOMAIN ar_tasks } = Range(ADVISOR_ROLES)
    /\ ar_round >= 2 =>
         \A i \in DOMAIN ar_tasks : ar_tasks[i].role # ar_prev[i].role
C30_Witness ==
  /\ ar_pc = "round"
  /\ ar_round = 3
  /\ ar_advisors = <<"p2", "p3", "p2", "p3">>
  /\ ar_tasks[1].role = "financial_advisor"
  /\ ar_prev[1].role = "technical_advisor"
  /\ ar_tasks[4].role = ar_tasks[1].role

\* C31: with deliberation enabled and a non-empty advisor pool, every round
\* makes exactly one lead-advisor synthesis call, issued only after all of
\* the round's reviews have returned, and the round's convergence decision
\* and the founder's revision input are taken from the verdict's readiness
\* signal and score, not from the raw reviews.
DeliberationOn(f) == deliberation_enabled /\ Len(AdvisorsOf(f)) > 0
C31_VerdictDrivesTheRound ==
  [][\A f \in ProviderNames : DeliberationOn(f) =>
       \* a round's reviews are left only by the synthesis call, made once
       \* every review is in
       /\ (fpc[f] = "review" /\ fpc'[f] \in {"delib", "done", "iterate"}) =>
            /\ fpc'[f] = "delib"
            /\ \A i \in DOMAIN rev[f] : rev[f][i].st = "ok"
            /\ s2calls'[f] = s2calls[f] + 1
       \* no second synthesis call in the round
       /\ fpc'[f] = "delib" => fpc[f] \in {"review", "delib"}
       /\ fpc[f] = "delib" =>
            /\ fpc'[f] # "review"
            /\ fpc'[f] = "delib" => s2calls'[f] = s2calls[f]
       \* the decision and the revision input come from the verdict
       /\ (fpc[f] = "delib" /\ fpc'[f] \in {"done", "iterate"}) =>
            /\ round_num'[f] = round_num[f]
            /\ (fpc'[f] = "done") <=>
                 \/ /\ round_num[f] >= MIN_ROUNDS_BEFORE_CONVERGENCE
                    /\ verdict'[f].ready
                    /\ verdict'[f].score >= ReadinessThreshold
                 \/ round_num[f] = max_iterations
            /\ fpc'[f] = "iterate" =>
                 /\ reviews_for_founder'[f].kind = "deliberation"
                 /\ reviews_for_founder'[f].deliberation = verdict'[f]
                 /\ reviews_for_founder'[f].reviews = <<>>
       \* a next round begins only after a revision made from a verdict
       /\ (round_num[f] >= 1 /\ round_num'[f] = round_num[f] + 1) =>
            /\ fpc[f] = "iterate"
            /\ reviews_for_founder[f].kind = "deliberation"]_vars
C31_Witness ==
  \E f \in FounderNames :
    /\ DeliberationOn(f)
    /\ fpc[f] = "iterate"
    /\ round_num[f] = 2
    /\ AllReady(rev[f]) /\ ScoreReached(rev[f])
    /\ ~verdict[f].ready
    /\ reviews_for_founder[f] = DeliberationInput(verdict[f])

\* C32: in a fresh run, a founder whose Stage-2 loop executed R rounds has
\* persisted exactly the plan versions v0 .. v(R-1), each written once and in
\* increasing order, and the founder's final plan is the highest of these
\* versions.
FreshRun == run_no = 1
LoopReturnedAfter(f, R) == fpc[f] = "done" /\ round_num[f] = R
C32_VersionsV0ToRMinus1 ==
  [][(FreshRun /\ FreshRun') =>
       \A f \in ProviderNames :
         \* every write is a new file, one version above the last
         /\ plan_files'[f] # plan_files[f] =>
              /\ plan_files'[f] = Append(plan_files[f], plan'[f])
              /\ plan'[f].version = Len(plan_files[f])
         \* after R rounds the files are v0 .. v(R-1) and the last is final
         /\ \A R \in 0..MaxRounds : LoopReturnedAfter(f, R)' =>
              /\ Len(plan_files'[f]) = R
              /\ \A v \in 0..(R - 1) : plan_files'[f][v + 1].version = v
              /\ R >= 1 => plan'[f] = plan_files'[f][R]
              /\ (R >= 1 /\ f \in DOMAIN final_plans') =>
                   final_plans'[f] = plan_files'[f][R]]_vars

\* C32, amended: in a fresh run, a founder whose Stage-2 loop executed
\* R >= 1 rounds has persisted exactly the plan versions v0 .. v(R-1), each
\* written once and in increasing order, and its final plan is v(R-1); a
\* founder whose loop executed no round (max_iterations = 0) has persisted
\* exactly v0, which is its final plan.
VersionsWritten(R) == IF R = 0 THEN 1 ELSE R
C32_VersionsOfAFreshRun ==
  [][(FreshRun /\ FreshRun') =>
       \A f \in ProviderNames :
         \* every write is a new file, one version above the last
         /\ plan_files'[f] # plan_files[f] =>
              /\ plan_files'[f] = Append(plan_files[f], plan'[f])
              /\ plan'[f].version = Len(plan_files[f])
         \* after R rounds the files are v0 .. v(R-1), or v0 alone, and the
         \* last is final
         /\ \A R \in 0..MaxRounds : LoopReturnedAfter(f, R)' =>
              /\ R = 0 <=> max_iterations = 0
              /\ Len(plan_files'[f]) = VersionsWritten(R)
              /\ \A v \in 0..(VersionsWritten(R) - 1) :
                   plan_files'[f][v + 1].version = v
              /\ plan'[f] = plan_files'[f][VersionsWritten(R)]
              /\ f \in DOMAIN final_plans' =>
                   final_plans'[f] = plan_files'[f][VersionsWritten(R)]]_vars
C32_Witness ==
  /\ FreshRun
  /\ \E f \in FounderNames :
       /\ LoopReturnedAfter(f, 3)
       /\ Len(plan_files[f]) = 3
       /\ f \in DOMAIN final_plans
       /\ final_plans[f].version = 2

\* C33: concurrently running Stage-2 founders share no mutable state other
\* than the checkpoint: under every interleaving, the previous feedback shown
\* to an advisor in round k for founder F consists only of that advisor's own
\* reviews of F's plan from rounds before k, and F's final plan and review
\* history contain no record produced for another founder.
C33_FoundersAreIsolated ==
  \A f \in ProviderNames :
    /\ \A i \in DOMAIN rev[f] :
         \A j \in DOMAIN rev[f][i].prev_feedback :
           /\ rev[f][i].prev_feedback[j].advisor = AdvisorsOf(f)[i]
           /\ rev[f][i].prev_feedback[j].for_founder = f
           /\ rev[f][i].prev_feedback[j].round < round_num[f]
    /\ \A j \in DOMAIN founder_reviews[f] : founder_reviews[f][j].for_founder = f
    /\ (fpc[f] = "done" /\ f \in DOMAIN selections) =>
         plan[f].idea_id = selections[f].refined_idea.idea_id

\* C34: for any text made of a prefix containing no '{' or '[', followed by
\* one well-formed JSON object or array, followed by an arbitrary suffix,
\* extract_json returns exactly that object or array; brackets, code-fence
\* markers and escaped quotes inside the payload's string values do not
\* change where the match starts or ends.
C34_ExtractReturnsThePayload ==
  ex_pc = "returned" => ex_result = ex_payload

\* C35: whenever the persisted checkpoint has stage2_complete set, the
\* persisted final-plan collection (stage2_final_plans) exists and contains
\* exactly one final plan for every founder of the founder role, also when
\* Stage 2 was completed by a partial resume that re-ran only some founders
\* or none.
ConfiguredFounders == Range(FromConfig(Providers, roles_config).founders)
C35_FinalPlansHoldEveryFounder ==
  StageComplete(cp, "stage2_complete") =>
    /\ Len(fp_file) = Cardinality(ConfiguredFounders)
    /\ \A f \in ConfiguredFounders :
         \E i \in DOMAIN fp_file : fp_file[i].idea_id[1] = f

\* C36: on any resume, the plan reloaded from disk for a founder listed in
\* stage2_founders_done equals the final plan with which that founder
\* completed Stage 2, even when an earlier interrupted attempt for the same
\* founder left plan-version files in the run directory.
LatestAttempt(f) ==
  CHOOSE r \in { plan_files[f][i].run : i \in DOMAIN plan_files[f] } :
    \A i \in DOMAIN plan_files[f] : plan_files[f][i].run <= r
\* The plan a founder recorded as done returned: the highest version its
\* latest attempt wrote.
CompletedPlan(f) ==
  CHOOSE p \in Range(plan_files[f]) :
    /\ p.run = LatestAttempt(f)
    /\ \A q \in Range(plan_files[f]) : q.run = LatestAttempt(f) => q.version <= p.version
PlansReloaded == pc = "s2" /\ pc' \in {"s2_run", "s2_flag"}
C36_ReloadedPlanIsTheFinalPlan ==
  [][PlansReloaded =>
       \A f \in FounderNames :
         f \in Range(FoundersDone(checkpoint)) =>
           /\ f \in DOMAIN final_plans'
           /\ final_plans'[f] = CompletedPlan(f)]_vars

\* ------------------------------------------------------------------------
\* C37. In every checkpoint persisted in the run directory the stage flags
\* are nested: stage3_complete is present only together with
\* stage2_complete, stage2_complete only together with stage1_complete, and
\* a stage2_founders_done list only together with stage1_complete.
\* ------------------------------------------------------------------------
C37_CheckpointFlagsAreNested ==
  /\ "stage3_complete" \in cp.keys => "stage2_complete" \in cp.keys
  /\ "stage2_complete" \in cp.keys => "stage1_complete" \in cp.keys
  /\ "stage2_founders_done" \in cp.keys => "stage1_complete" \in cp.keys

\* A checkpoint written in Stage 2 (flag of Stage 1 and a list of finished
\* founders) and one written after Stage 3 (all three flags and the list).
C37_Witness ==
  /\ cp.keys = {"stage1_complete", "stage2_complete", "stage3_complete",
                "stage2_founders_done"}
  /\ Len(cp.done) >= 1

\* ------------------------------------------------------------------------
\* C38. Without deliberation, a founder whose advisor pool is empty (every
\* role-assigned advisor is the founder itself) never converges: its loop
\* runs exactly max_iterations rounds and makes exactly max_iterations - 1
\* revision calls (the provider calls made for the founder are the build and
\* the revisions), and every revision call is given the empty list of
\* reviews.
\* ------------------------------------------------------------------------
EmptyPool(f) ==
  /\ f \in Range(roles.founders)
  /\ AdvisorsOf(f) = <<>>
  /\ ~deliberation_enabled

\* iterate calls made for the founder so far
RevisionCalls(f) == s2calls[f] - 1

C38_EmptyPoolMakesMaxRoundsMinus1Revisions ==
  \A f \in ProviderNames :
    EmptyPool(f) =>
      /\ fpc[f] = "iterate" =>
           /\ round_num[f] < max_iterations
           /\ reviews_for_founder[f] = ReviewsInput(<<>>)
           /\ RevisionCalls(f) = round_num[f]
      /\ fpc[f] = "done" =>
           /\ round_num[f] = max_iterations
           /\ RevisionCalls(f) = max_iterations - 1

\* C38, amended: without deliberation, a founder whose advisor pool is empty
\* never converges: its loop runs exactly max_iterations rounds and makes
\* exactly max(max_iterations - 1, 0) revision calls, each given the empty
\* list of reviews; the plan returned is the version of that number (with
\* max_iterations = 0 no round runs and no revision is made).
C38_EmptyPoolRunsEveryRound ==
  \A f \in ProviderNames :
    EmptyPool(f) =>
      /\ fpc[f] = "iterate" =>
           /\ round_num[f] < max_iterations
           /\ reviews_for_founder[f] = ReviewsInput(<<>>)
           /\ RevisionCalls(f) = round_num[f]
      /\ fpc[f] = "done" =>
           /\ round_num[f] = max_iterations
           /\ RevisionCalls(f) = Max(max_iterations - 1, 0)
           /\ plan[f].version = Max(max_iterations - 1, 0)

\* The loop of a founder without advisors has returned after three rounds
\* and two revisions.
C38_Witness ==
  \E f \in ProviderNames :
    /\ EmptyPool(f)
    /\ max_iterations = 3
    /\ fpc[f] = "done"
    /\ round_num[f] = 3
    /\ s2calls[f] = 3
    /\ plan[f].version = 2

\* ------------------------------------------------------------------------
\* C39. The plan returned for a founder is always the plan version that
\* was reviewed in the last executed round: when the founder's task returns,
\* a round has been executed, the plan returned is the version that round
\* ran on (version round - 1) and no revision call was made after it.
\* ------------------------------------------------------------------------
TaskReturns(f) == fpc[f] \in {"build", "review", "delib"} /\ fpc'[f] = "done"

C39_ReturnedPlanWasReviewed ==
  [][\A f \in ProviderNames :
       TaskReturns(f) =>
         /\ round_num'[f] >= 1
         /\ plan'[f].version = round_num'[f] - 1
         /\ s2calls'[f] = s2calls[f]]_vars

\* C39, amended.  When at least one round was executed, the plan returned
\* for a founder is the plan the last executed round ran on.  The step at
\* which the loop stops (by convergence or at max_iterations) makes no
\* provider call and leaves the plan as it is; that plan is version
\* round - 1, and every review recorded for that round (there is one when
\* the founder has an advisor) was written on it; after the loop has
\* stopped no call is made for the founder and its plan does not change;
\* and the plan recorded in final_plans is that plan.  With
\* max_iterations = 0 no round is executed and the plan returned is the
\* build v0, which no advisor has reviewed.
LoopStops(f) == fpc[f] \in {"review", "delib"} /\ fpc'[f] = "done"

\* The build call returns and there is no round to run.
ReturnsUnreviewed(f) == fpc[f] = "build" /\ fpc'[f] = "done"

\* The reviews kept for the founder end with those of round round_num, and
\* these were written on the founder's current plan.
ReviewedInLastRound(f) ==
  /\ \A i \in DOMAIN founder_reviews[f] :
       /\ founder_reviews[f][i].round <= round_num[f]
       /\ founder_reviews[f][i].round = round_num[f] =>
            founder_reviews[f][i].plan_version = plan[f].version
  /\ Len(AdvisorsOf(f)) > 0 =>
       \E i \in DOMAIN founder_reviews[f] : founder_reviews[f][i].round = round_num[f]

C39_ReturnedPlanIsLastReviewed ==
  [][\A f \in ProviderNames :
       /\ LoopStops(f) =>
            /\ plan'[f] = plan[f]
            /\ s2calls'[f] = s2calls[f]
            /\ round_num[f] >= 1
            /\ plan[f].version = round_num[f] - 1
            /\ ReviewedInLastRound(f)'
       /\ ReturnsUnreviewed(f) =>
            /\ max_iterations = 0
            /\ round_num'[f] = 0
            /\ plan'[f].version = 0
            /\ founder_reviews'[f] = <<>>
       /\ (fpc[f] = "done" /\ fpc'[f] = "done") =>
            /\ plan'[f] = plan[f]
            /\ s2calls'[f] = s2calls[f]
            /\ round_num'[f] = round_num[f]
       /\ (fpc[f] = "done" /\ f \notin DOMAIN final_plans /\ f \in DOMAIN final_plans') =>
            final_plans'[f] = plan[f]]_vars

\* Two founders of one invocation: one converged in round 2 of 3 and
\* returned v1, the other ran all three rounds and returned v2.
C39_Witness ==
  \E f, g \in DOMAIN final_plans :
    /\ max_iterations = 3
    /\ fpc[f] = "done" /\ round_num[f] = 2 /\ final_plans[f].version = 1
    /\ fpc[g] = "done" /\ round_num[g] = 3 /\ final_plans[g].version = 2

\* ------------------------------------------------------------------------
\* C40. In a successful run PIPELINE_START is the first event, before every
\* stage event; every STAGE_START is followed by exactly one STAGE_COMPLETE
\* of the same stage before the next STAGE_START (or the end of the run);
\* Stage 3 is started; and PIPELINE_COMPLETE is the last event, after the
\* STAGE_COMPLETE of Stage 3.
\* ------------------------------------------------------------------------
IsStageStart(e) == e.type = "stage_start"

\* The position of the first STAGE_START after position i, or one past the
\* end of the log.
NextStageStart(log, i) ==
  IF \E j \in (i + 1)..Len(log) : IsStageStart(log[j])
  THEN CHOOSE j \in (i + 1)..Len(log) :
         /\ IsStageStart(log[j])
         /\ \A k \in (i + 1)..(j - 1) : ~IsStageStart(log[k])
  ELSE Len(log) + 1

StageEventsInOrder(log) ==
  /\ Len(log) >= 2
  /\ log[1] = PipelineEvent("pipeline_start", "")
  /\ \A i \in 2..Len(log) : log[i].type # "pipeline_start"
  /\ \A i \in DOMAIN log :
       IsStageStart(log[i]) =>
         Cardinality({ j \in (i + 1)..(NextStageStart(log, i) - 1) :
                         log[j] = PipelineEvent("stage_complete", log[i].stage) }) = 1
  /\ \E i \in DOMAIN log : log[i] = PipelineEvent("stage_start", "stage3")
  /\ log[Len(log)] = PipelineEvent("pipeline_complete", "")
  /\ \A i \in 1..(Len(log) - 1) : log[i].type # "pipeline_complete"
  /\ \E i \in DOMAIN log : log[i] = PipelineEvent("stage_complete", "stage3")

C40_StageEventsAreBracketed ==
  pc = "complete" => StageEventsInOrder(events.log)

====
